---- MODULE Spec2Model ----
(***************************************************************************)
(* Model of the tracer renderer's command-recording and submission core:   *)
(* the deferred Encoder / CommandBuffer replay, the Queue, the Swapchain   *)
(* semaphore rotation and the double-buffered frame fences of the          *)
(* pipelines.                                                              *)
(***************************************************************************)
EXTENDS Integers, Sequences, FiniteSets, TLC

(***************************************************************************)
(* Record fields are written everywhere in the order in which the field    *)
(* names first occur in this module, which is the normal form TLC keeps    *)
(* records in.                                                             *)
(***************************************************************************)

(***************************************************************************)
(* Bounds of the model.                                                    *)
(***************************************************************************)
MaxCommands == 2
MaxWrites == 2
MaxFrames == 5
MaxAcquires == 4
MaxConfigures == 1
MaxBindings == 2
MaxCreates == 3
MaxGroups == 1

(***************************************************************************)
(* Encoder / CommandBuffer state.                                          *)
(***************************************************************************)
VARIABLES
    commands,        \* EncoderInner.commands
    enc_state,       \* "open" | "finished" | "panicked"
    recording,       \* CommandBuffer.recording
    native,          \* native calls issued so far on the vk command buffer
    writes,          \* number of CommandBuffer::write calls that returned
    last_call,       \* the last Encoder / CommandBuffer method called
    overflow_checks  \* build profile: TRUE panics on u32 overflow, FALSE wraps

encVars == <<commands, enc_state, recording, native, writes, last_call, overflow_checks>>

(***************************************************************************)
(* Swapchain, Queue, device and frame-loop state.  An Option is a sequence *)
(* of length at most one.                                                  *)
(***************************************************************************)
VARIABLES
    inner,           \* Swapchain.inner
    retired,         \* Swapchain.retired
    free_semaphore,  \* Swapchain.free_semaphore
    semaphores,      \* device semaphore slab: the signal state of each handle
    image_state,     \* per native swapchain, per image: "free" | "acquired" | "queued"
    gpu_queue,       \* queue operations submitted and not yet executed
    fence_state,     \* the signal state of the pipeline's two fences
    fence_frame,     \* the frame whose submission each fence was last handed to
    unwaited,        \* frames whose fenced submission the host has not waited for
    frame,           \* PathTracingPipeline.frame / RasterPipeline.frame
    pipeline_kind,   \* which pipeline the frame loop drives
    pc,              \* position inside Renderer::draw
    swapchain_image, \* the Option<SwapchainImage> last returned by acquire
    blases,          \* whether Renderer.blases holds key 0
    call_log,        \* device and queue calls made by the current Renderer::draw
    held,            \* images acquired by a swapchain client and not yet presented
    acquires         \* number of acquire_next_image calls made

swapVars == <<inner, retired, free_semaphore, semaphores, image_state, gpu_queue>>

frameVars == <<fence_state, fence_frame, unwaited, frame, pipeline_kind, pc, blases, call_log>>

clientVars == <<swapchain_image, held, acquires>>

(***************************************************************************)
(* Device bookkeeping and the descriptor objects built through it.         *)
(***************************************************************************)
VARIABLES
    created,         \* per slab kind: number of native handles created so far
    slabs,           \* DeviceInner's slabs: per kind, the handles registered
    destroy_log,     \* native destroy calls made by Device::cleanup, in order
    dev_state,       \* "live" | "panicked" | "destroyed"
    create_calls,    \* number of Device create_* / Swapchain::configure calls made
                     \* since construction
    layout_info,     \* the bindings a client passes to create_descriptor_set_layout
    layout_sizes,    \* Option: DescriptorSetLayout.sizes of the last layout created
    pool_infos       \* the create info of every native descriptor pool created

devVars == <<created, slabs, destroy_log, dev_state, create_calls>>

descVars == <<layout_info, layout_sizes, pool_infos>>

VARIABLES
    rt_properties,   \* physical device ray tracing properties
    sbt_info,        \* the ShaderBindingTableInfo the client passes
    usize_bits,      \* pointer width of the build target: 32 or 64
    sbt              \* outcome of create_shader_binding_table, <<>> before the call

sbtVars == <<rt_properties, sbt_info, usize_bits, sbt>>

\* a second Encoder on a command buffer of its own
VARIABLES
    commands_b,      \* EncoderInner.commands of the second encoder
    enc_state_b,     \* "open" | "finished" | "panicked"
    recording_b,     \* CommandBuffer.recording of the second command buffer
    native_b         \* native calls issued so far on the second vk command buffer

replayVars == <<commands_b, enc_state_b, recording_b, native_b>>

(***************************************************************************)
(* Start-up inputs: the physical devices the instance enumerates.          *)
(***************************************************************************)
VARIABLES
    devices,         \* what enumerate_physical_devices returns, in order
    selection        \* outcome of PhysicalDevice::select_one, <<>> before the call

selVars == <<devices, selection>>

(***************************************************************************)
(* A mesh asset.                                                           *)
(***************************************************************************)
VARIABLES
    mesh,            \* Mesh: primitive_topology, attributes, indices
    mesh_state,      \* "ready" after the constructor and the setters, else how the
                     \* last call of the mesh ended: "returned" | "panicked"
    index_variant,   \* the variant of Mesh.indices when it is Some: "U16" | "U32"
    blas             \* outcome of Mesh::build_triangle_blas, <<>> before the call

meshVars == <<mesh, mesh_state, index_variant, blas>>

(***************************************************************************)
(* The pass that renders into the target image: TonemapPass of the path    *)
(* tracing pipeline, RasterPass of the raster pipeline.                    *)
(***************************************************************************)
VARIABLES
    framebuffers,    \* the pass's LruCache<Image, Framebuffer>, most recently used first
    initial_images,  \* TonemapPass.initial_images: per slot an Option<ImageView>
    set_writes,      \* per descriptor set of the pass: the image views written to it
    recorded,        \* per submitted command buffer of the pass: what it references
    pass_log         \* device and queue calls made by the pass's last draw

passVars == <<framebuffers, initial_images, set_writes, recorded, pass_log>>

(***************************************************************************)
(* The UI pass and the font atlas of the UI library.                       *)
(***************************************************************************)
VARIABLES
    texture,         \* egui_context.texture().version
    ui_pass          \* UIPass: texture_version, font_image, what its descriptor sets hold

uiVars == <<texture, ui_pass>>

(***************************************************************************)
(* The ray tracing pass and its output image.                              *)
(***************************************************************************)
VARIABLES
    raytracing_output, \* Option: the Output.output_image RayTracingPass::draw returned
    rt_commands,       \* the command list the last RayTracingPass::draw recorded
    output_image,      \* RayTracingPass.output_image: its layout on the queue's timeline
    host_buffers       \* RayTracingPass's globals and instances buffer: per buffer an
                       \* Option, the frame whose data the host wrote into it last

rtVars == <<raytracing_output, rt_commands, output_image, host_buffers>>

VARIABLES
    swapchain_infos  \* the create info of every native swapchain created

(***************************************************************************)
(* The Queue's command pool and the command buffers allocated from it.     *)
(***************************************************************************)
VARIABLES
    pool,            \* Queue.pool: an Option, <<>> is vk::CommandPool::null()
    command_pools,   \* number of native command pools created
    command_buffers, \* per native command buffer allocated: pool, level, use so far
    encoders         \* the Encoder each Queue::create_enconder call returned, in call order

queueVars == <<pool, command_pools, command_buffers, encoders>>

\* what the passes and the start-up inputs hold, the queue's pool aside
passesVars == <<selVars, meshVars, passVars, uiVars, rtVars, swapchain_infos>>

\* everything above that Swapchain::configure leaves alone
stillVars == <<descVars, sbtVars, replayVars, selVars, meshVars, passVars, uiVars, rtVars, queueVars>>

moreVars == <<passesVars, queueVars>>

auxVars == <<descVars, sbtVars, replayVars, moreVars>>

vars == <<encVars, swapVars, frameVars, clientVars, devVars, auxVars>>

(***************************************************************************)
(* The Command variants and the values their operands range over.          *)
(***************************************************************************)
None == "None"

Range(s) == {s[i] : i \in DOMAIN s}

\* Range<u32>: any pair of bounds, also one whose end lies before its start
Ranges == {[start |-> 0, end |-> 1], [start |-> 2, end |-> 3], [start |-> 3, end |-> 1]}

\* clear values are told apart by their position in the caller's slice
ClearsOfLen(len) == [i \in 1..len |-> i]

BeginRenderPassCommands ==
    [tag : {"BeginRenderPass"}, attachments : 0..2,
     clears : {ClearsOfLen(len) : len \in 0..2}]

DrawCommands == [tag : {"Draw"}, vertices : Ranges, instances : Ranges]

DrawIndexedCommands ==
    [tag : {"DrawIndexed"}, instances : Ranges, indices : Ranges, vertex_offset : {0}]

AccessMasks == {"MEMORY_WRITE", "ACCELERATION_STRUCTURE_READ_KHR"}

\* ImageMemoryBarrier::initialize_whole and ::transition_whole
ImageBarrierLists ==
    LET initialize == [old_layout |-> None, new_layout |-> "GENERAL"]
        transition == [old_layout |-> "GENERAL", new_layout |-> "SHADER_READ_ONLY_OPTIMAL"]
    IN  {<<>>, <<initialize>>, <<initialize, transition>>}

PipelineBarrierCommands ==
    [tag : {"PipelineBarrier"},
     src : {"ACCELERATION_STRUCTURE_BUILD_KHR"}, dst : {"RAY_TRACING_SHADER_KHR"},
     src_access_mask : AccessMasks, dst_access_mask : AccessMasks,
     image_barriers : ImageBarrierLists]

\* a slice of build infos, each given by its number of geometries
InfoSlices == {<<>>, <<1>>, <<1, 2>>, <<0>>, <<2, 0>>}

(***************************************************************************)
(* u32 values handed to the native API, kept as two 16-bit limbs <<hi,lo>>.*)
(***************************************************************************)
Limb == 65536

U32(v) == <<v \div Limb, v % Limb>>

\* a - b on u32 with wrap-around (2^32 - d is the complement of d - 1)
WrappingSub(a, b) ==
    IF a >= b THEN U32(a - b)
    ELSE <<(Limb - 1) - ((b - a - 1) \div Limb), (Limb - 1) - ((b - a - 1) % Limb)>>

\* a - b panics when the build checks overflow and wraps when it does not
SubOverflows(a, b, checks) == checks /\ a < b

(***************************************************************************)
(* CommandBuffer::write, one command at a time.                            *)
(***************************************************************************)
Take(s, len) == [i \in 1..len |-> s[i]]

\* clears.next().unwrap() on an exhausted iterator
BeginRenderPassPanics(cmd) == Len(cmd.clears) < cmd.attachments

BeginRenderPassCall(cmd) ==
    [call |-> "cmd_begin_render_pass",
     clear_values |-> Take(cmd.clears, cmd.attachments)]

DrawPanics(cmd, checks) ==
    \/ SubOverflows(cmd.vertices.end, cmd.vertices.start, checks)
    \/ SubOverflows(cmd.instances.end, cmd.instances.start, checks)

DrawCall(cmd) ==
    [call |-> "cmd_draw",
     vertex_count |-> WrappingSub(cmd.vertices.end, cmd.vertices.start),
     instance_count |-> WrappingSub(cmd.instances.end, cmd.instances.start),
     first_vertex |-> U32(cmd.vertices.start),
     first_instance |-> U32(cmd.instances.start)]

DrawIndexedPanics(cmd, checks) ==
    \/ SubOverflows(cmd.indices.end, cmd.indices.start, checks)
    \/ SubOverflows(cmd.instances.end, cmd.indices.start, checks)

DrawIndexedCall(cmd) ==
    [vertex_offset |-> cmd.vertex_offset,
     call |-> "cmd_draw_indexed",
     instance_count |-> WrappingSub(cmd.instances.end, cmd.indices.start),
     first_instance |-> U32(cmd.instances.start),
     index_count |-> WrappingSub(cmd.indices.end, cmd.indices.start),
     first_index |-> U32(cmd.indices.start)]

\* variant: a missing old layout is taken to be the new layout
ImageBarrierCallKeepsLayout(b, src_access_mask, dst_access_mask) ==
    [old_layout |-> IF b.old_layout = None THEN b.new_layout ELSE b.old_layout,
     new_layout |-> b.new_layout,
     src_access_mask |-> src_access_mask,
     dst_access_mask |-> src_access_mask]

ImageBarrierCall(b, src_access_mask, dst_access_mask) ==
    [old_layout |-> IF b.old_layout = None THEN "UNDEFINED" ELSE b.old_layout,
     new_layout |-> b.new_layout,
     src_access_mask |-> src_access_mask,
     dst_access_mask |-> src_access_mask]

PipelineBarrierCall(cmd) ==
    [call |-> "cmd_pipeline_barrier",
     src_stage_mask |-> cmd.src,
     dst_stage_mask |-> cmd.dst,
     memory_barriers |-> <<[src_access_mask |-> cmd.src_access_mask,
                            dst_access_mask |-> cmd.dst_access_mask]>>,
     buffer_memory_barriers |-> <<>>,
     image_memory_barriers |->
        [i \in 1..Len(cmd.image_barriers) |->
            ImageBarrierCall(cmd.image_barriers[i], cmd.src_access_mask,
                             cmd.dst_access_mask)]]

\* offsets[range][0] indexes an empty slice when an info has no geometry
BuildAccelerationStructurePanics(cmd) ==
    \E i \in 1..Len(cmd.infos) : cmd.infos[i] = 0

BuildAccelerationStructureCall(cmd) ==
    [call |-> "cmd_build_acceleration_structures_khr",
     info_count |-> Len(cmd.infos),
     geometry_counts |-> cmd.infos]

SimpleCall(cmd) ==
    CASE cmd.tag = "EndRenderPass" -> [call |-> "cmd_end_render_pass"]
      [] cmd.tag = "BindGraphicsPipeline" ->
            [call |-> "cmd_bind_pipeline", bind_point |-> "GRAPHICS"]
      [] cmd.tag = "BindRayTracingPipeline" ->
            [call |-> "cmd_bind_pipeline", bind_point |-> "RAY_TRACING_KHR"]
      [] cmd.tag = "BindDescriptorSets" -> [call |-> "cmd_bind_descriptor_sets"]
      [] cmd.tag = "SetViewport" -> [call |-> "cmd_set_viewport"]
      [] cmd.tag = "SetScissor" -> [call |-> "cmd_set_scissor"]
      [] cmd.tag = "UpdateBuffer" -> [call |-> "cmd_update_buffer"]
      [] cmd.tag = "BindVertexBuffers" -> [call |-> "cmd_bind_vertex_buffers"]
      [] cmd.tag = "BindIndexBuffer" -> [call |-> "cmd_bind_index_buffer"]
      [] cmd.tag = "TraceRays" -> [call |-> "cmd_trace_rays_khr"]

CommandPanics(cmd, checks) ==
    CASE cmd.tag = "BeginRenderPass" -> BeginRenderPassPanics(cmd)
      [] cmd.tag = "Draw" -> DrawPanics(cmd, checks)
      [] cmd.tag = "DrawIndexed" -> DrawIndexedPanics(cmd, checks)
      [] cmd.tag = "BuildAccelerationStructure" -> BuildAccelerationStructurePanics(cmd)
      [] OTHER -> FALSE

CommandCall(cmd) ==
    CASE cmd.tag = "BeginRenderPass" -> BeginRenderPassCall(cmd)
      [] cmd.tag = "Draw" -> DrawCall(cmd)
      [] cmd.tag = "DrawIndexed" -> DrawIndexedCall(cmd)
      [] cmd.tag = "PipelineBarrier" -> PipelineBarrierCall(cmd)
      [] cmd.tag = "BuildAccelerationStructure" -> BuildAccelerationStructureCall(cmd)
      [] OTHER -> SimpleCall(cmd)

\* variant: the loop walks the command list from its end
RECURSIVE ReplayReversed(_, _, _)
ReplayReversed(cmds, log, checks) ==
    IF cmds = <<>> THEN [log |-> log, panicked |-> FALSE]
    ELSE IF CommandPanics(cmds[Len(cmds)], checks) THEN [log |-> log, panicked |-> TRUE]
    ELSE ReplayReversed(SubSeq(cmds, 1, Len(cmds) - 1),
                        Append(log, CommandCall(cmds[Len(cmds)])), checks)

\* the `for command in commands` loop: the calls issued and whether it panicked
RECURSIVE Replay(_, _, _)
Replay(cmds, log, checks) ==
    IF cmds = <<>> THEN [log |-> log, panicked |-> FALSE]
    ELSE IF CommandPanics(Head(cmds), checks) THEN [log |-> log, panicked |-> TRUE]
    ELSE Replay(Tail(cmds), Append(log, CommandCall(Head(cmds))), checks)

\* variant: one recording flag shared by every command buffer
WriteCommandsSharedFlag(rec, log, cmds, checks) ==
    LET begun == IF ~recording THEN Append(log, [call |-> "begin_command_buffer"]) ELSE log
        r == Replay(cmds, begun, checks)
    IN  IF r.panicked THEN r
        ELSE [log |-> Append(r.log, [call |-> "end_command_buffer"]), panicked |-> FALSE]

\* CommandBuffer::write: begin unless already recording, replay, end
WriteCommands(rec, log, cmds, checks) ==
    LET begun == IF ~rec THEN Append(log, [call |-> "begin_command_buffer"]) ELSE log
        r == Replay(cmds, begun, checks)
    IN  IF r.panicked THEN r
        ELSE [log |-> Append(r.log, [call |-> "end_command_buffer"]), panicked |-> FALSE]

(***************************************************************************)
(* Device: every native handle is registered in the slab of its kind.      *)
(***************************************************************************)
\* the slabs of DeviceInner, in declaration order
SlabKinds ==
    <<"buffers", "swapchains", "semaphores", "fences", "framebuffers", "images",
      "image_views", "samplers", "descriptor_pools", "descriptor_set_layouts",
      "pipelines", "pipeline_layouts", "render_passes", "shader_modules",
      "acceleration_structures">>

\* variant: the native_handle is not registered
SlabInsertDropped(slab, native_handle) == slab

\* Slab::insert
SlabInsert(slab, native_handle) == Append(slab, native_handle)

\* `n` native handles of one kind created and registered, one after another
RECURSIVE RegisterMany(_, _, _)
RegisterMany(slab, first, n) ==
    IF n = 0 THEN slab
    ELSE RegisterMany(SlabInsert(slab, first), first + 1, n - 1)

\* a device on which `counts[kind]` handles of each kind have been created
DeviceWith(counts) ==
    /\ created = [k \in Range(SlabKinds) |-> IF k \in DOMAIN counts THEN counts[k] ELSE 0]
    /\ slabs = [k \in Range(SlabKinds) |->
                    IF k \in DOMAIN counts THEN RegisterMany(<<>>, 1, counts[k]) ELSE <<>>]
    /\ destroy_log = <<>>
    /\ dev_state = "live"
    /\ create_calls = 0

\* the handles of each kind that RayTracingPass::new registers: the shader
\* binding table's buffer and the TLAS, scratch, instances and globals
\* buffers, the TLAS, the output image and its view, the pool of the
\* descriptor set, the set's layout, the pipeline, its layout, three shaders
RayTracingPass_new ==
    [buffers |-> 5, images |-> 1, image_views |-> 1, descriptor_pools |-> 1,
     descriptor_set_layouts |-> 1, pipelines |-> 1, pipeline_layouts |-> 1,
     shader_modules |-> 3, acceleration_structures |-> 1]

\* TonemapPass::new: the sampler, a pool for each of the two descriptor
\* sets, their layout, the pipeline, its layout, the render pass, two shaders
TonemapPass_new ==
    [descriptor_pools |-> 2, descriptor_set_layouts |-> 1, pipelines |-> 1,
     pipeline_layouts |-> 1, shader_modules |-> 2, samplers |-> 1, render_passes |-> 1]

\* RasterPass::new: the depth image, the pipeline, its layout, the render
\* pass, two shaders
RasterPass_new ==
    [images |-> 1, pipelines |-> 1, pipeline_layouts |-> 1, shader_modules |-> 2,
     render_passes |-> 1]

\* UIPass::new: a vertex and an index buffer per frame in flight, and what
\* TonemapPass::new registers
UIPass_new ==
    [buffers |-> 4, descriptor_pools |-> 2, descriptor_set_layouts |-> 1, pipelines |-> 1,
     pipeline_layouts |-> 1, shader_modules |-> 2, samplers |-> 1, render_passes |-> 1]

\* the free function build_triangle_blas of the renderer: the vertex, index,
\* storage and scratch buffers and the BLAS
BlasObjects == [buffers |-> 4, acceleration_structures |-> 1]

\* the handles of each kind after both of two groups of them were created
Together(a, b) ==
    [k \in DOMAIN a \cup DOMAIN b |->
        (IF k \in DOMAIN a THEN a[k] ELSE 0) + (IF k \in DOMAIN b THEN b[k] ELSE 0)]

\* the handles the passes of a pipeline register in its constructor
PipelineObjects(kind) ==
    IF kind = "raster" THEN RasterPass_new ELSE Together(RayTracingPass_new, TonemapPass_new)

\* the handles the target pass of a pipeline registers in its constructor
TargetPassObjects(kind) == IF kind = "raster" THEN RasterPass_new ELSE TonemapPass_new

RECURSIVE Total(_)
Total(counts) ==
    IF DOMAIN counts = {} THEN 0
    ELSE LET k == CHOOSE x \in DOMAIN counts : TRUE
         IN  counts[k] + Total([x \in DOMAIN counts \ {k} |-> counts[x]])

\* create -> register-in-slab for every handle of `counts`, one call each
CreateAll(counts) ==
    /\ created' = [k \in DOMAIN created |->
                      created[k] + (IF k \in DOMAIN counts THEN counts[k] ELSE 0)]
    /\ slabs' = [k \in DOMAIN slabs |->
                    IF k \in DOMAIN counts
                    THEN RegisterMany(slabs[k], created[k] + 1, counts[k])
                    ELSE slabs[k]]
    /\ create_calls' = create_calls + Total(counts)

\* create -> register-in-slab, for `n` handles of one kind
Create(kind, n) ==
    /\ created' = [created EXCEPT ![kind] = @ + n]
    /\ slabs' = [slabs EXCEPT ![kind] = RegisterMany(@, created[kind] + 1, n)]
    /\ create_calls' = create_calls + 1

(***************************************************************************)
(* Shader binding table.  Byte offsets are kept as <<hi, lo>> with value   *)
(* hi * Limb + lo, so that values of 2^32 and above are exact.             *)
(***************************************************************************)
Wide(v) == <<v \div Limb, v % Limb>>

WideAdd(a, b) ==
    LET lo == a[2] + b[2]
    IN  <<a[1] + b[1] + (lo \div Limb), lo % Limb>>

\* a - b for a >= b
WideSub(a, b) ==
    IF a[2] >= b[2] THEN <<a[1] - b[1], a[2] - b[2]>>
    ELSE <<a[1] - b[1] - 1, a[2] + Limb - b[2]>>

\* a * k for a factor k below 2^15
WideMul(a, k) ==
    LET lo == a[2] * k
    IN  <<a[1] * k + (lo \div Limb), lo % Limb>>

WideLE(a, b) == a[1] < b[1] \/ (a[1] = b[1] /\ a[2] <= b[2])

\* v & !m, bit by bit
RECURSIVE AndNot(_, _)
AndNot(v, m) ==
    IF v = 0 THEN 0
    ELSE 2 * AndNot(v \div 2, m \div 2) + (IF m % 2 = 0 THEN v % 2 ELSE 0)

WideAndNot(v, m) == <<AndNot(v[1], m[1]), AndNot(v[2], m[2])>>

\* a value fits the build's usize
FitsUsize(w, bits) == bits = 64 \/ w[1] < Limb

\* `as usize`
AsUsize(w, bits) == IF bits = 64 THEN w ELSE <<w[1] % Limb, w[2]>>

\* variant: rounds with the alignment itself as the mask
align_up_unmasked(align_mask, value) ==
    WideAndNot(WideAdd(align_mask, value), WideAdd(align_mask, <<0, 1>>))

\* util::align_up on u64; the checked_add cannot overflow for u32 operands
align_up(align_mask, value) ==
    WideAndNot(WideAdd(align_mask, value), align_mask)

\* all sequences over S of length at most len
RECURSIVE SeqsUpTo(_, _)
SeqsUpTo(S, len) ==
    IF len = 0 THEN {<<>>}
    ELSE LET shorter == SeqsUpTo(S, len - 1)
         IN  shorter \cup {Append(q, x) : q \in shorter, x \in S}

\* number of shader groups of the ray tracing pipeline: raygen, miss and
\* the triangle hit group
PipelineGroups == 3

\* group indices a client may name in a category: the raygen group, the
\* group the repository's table names for the category, and 2^27
GroupIndices(own) == {0, 134217728} \cup own

HandleSizes == {8, 32, 33}

BaseAlignments == {0, 3, 16, 64}

GroupLists(own) == SeqsUpTo(GroupIndices(own), MaxGroups)

ShaderBindingTableInfos ==
    [raygen : {<<>>, <<0>>},
     miss : GroupLists({1}), hit : GroupLists({2}), callable : GroupLists({})]

\* copy_group_handlers, the loop over group_indices: outcome "none" is the
\* early return of `?`, "panic" a slice out of its bounds
RECURSIVE CopyLoop(_, _, _, _, _, _, _, _)
CopyLoop(group_indices, write_offset, copied, group_size, group_stride, handlers_len, write_len, bits) ==
    IF group_indices = <<>>
    THEN [write_offset |-> write_offset, copied |-> copied, outcome |-> "some"]
    ELSE
      LET group_offset == WideMul(Wide(Head(group_indices)), group_size)
          group_end == WideAdd(group_offset, Wide(group_size))
          write_end == WideAdd(write_offset, Wide(group_size))
          next_offset == WideAdd(write_offset, group_stride)
      IN  IF \/ ~FitsUsize(group_offset, bits)
             \/ ~FitsUsize(group_end, bits)
             \/ ~FitsUsize(write_end, bits)
          THEN [write_offset |-> write_offset, copied |-> copied, outcome |-> "none"]
          ELSE IF ~WideLE(group_end, handlers_len) \/ ~WideLE(write_end, write_len)
          THEN [write_offset |-> write_offset, copied |-> copied, outcome |-> "panic"]
          ELSE IF ~FitsUsize(next_offset, bits)
          THEN [write_offset |-> write_offset, copied |-> copied + 1, outcome |-> "none"]
          ELSE CopyLoop(Tail(group_indices), next_offset, copied + 1, group_size,
                        group_stride, handlers_len, write_len, bits)

\* copy_group_handlers: the range written, or none
copy_group_handlers(group_indices, write_offset, group_size, group_stride, handlers_len, write_len, bits) ==
    LET r == CopyLoop(group_indices, write_offset, 0, group_size, group_stride,
                      handlers_len, write_len, bits)
    IN  [write_offset |-> r.write_offset, copied |-> r.copied, outcome |-> r.outcome,
         range |-> IF r.outcome = "some" THEN <<<<write_offset, r.write_offset>>>>
                   ELSE <<>>]

\* the four calls of copy_group_handlers, sharing write_offset
RECURSIVE CopyAll(_, _, _, _, _, _, _)
CopyAll(lists, write_offset, group_size, group_stride, handlers_len, write_len, bits) ==
    IF lists = <<>> THEN <<>>
    ELSE LET r == copy_group_handlers(Head(lists), write_offset, group_size,
                                      group_stride, handlers_len, write_len, bits)
         IN  IF r.outcome = "panic" THEN <<r>>
             ELSE <<r>> \o CopyAll(Tail(lists), r.write_offset, group_size,
                                   group_stride, handlers_len, write_len, bits)

GroupCount(info) ==
    Len(info.raygen) + Len(info.miss) + Len(info.hit) + Len(info.callable)

\* range -> BufferRegion
Region(range, group_stride) ==
    IF range = <<>> THEN <<>>
    ELSE <<[offset |-> range[1][1], size |-> WideSub(range[1][2], range[1][1]),
            stride |-> group_stride]>>

Panicked(overflowed) ==
    [copied |-> 0, group_stride |-> <<0, 0>>, overflowed |-> overflowed,
     status |-> "panicked", regions |-> <<>>, buffer_size |-> <<0, 0>>]

\* Device::create_shader_binding_table as a function of its inputs
ShaderBindingTableOf(props, info, bits, checks) ==
    LET handle_size == props.shader_group_handle_size
        base_alignment == props.shader_group_base_alignment
        group_size == handle_size
        mask_wraps == base_alignment = 0
        group_align == IF mask_wraps THEN <<Limb - 1, Limb - 1>>
                       ELSE Wide(base_alignment - 1)
        group_count == GroupCount(info)
        group_stride == align_up(group_align, Wide(group_size))
        total_size == AsUsize(WideMul(group_stride, group_count), bits)
        handlers_len == Wide(group_size * PipelineGroups)
        copies == CopyAll(<<info.raygen, info.miss, info.hit, info.callable>>,
                          <<0, 0>>, group_size, AsUsize(group_stride, bits),
                          handlers_len, total_size, bits)
        overflowed == mask_wraps \/ \E i \in DOMAIN copies : copies[i].outcome = "none"
    IN  IF mask_wraps /\ checks THEN Panicked(TRUE)
        ELSE IF copies[Len(copies)].outcome = "panic" THEN Panicked(overflowed)
        ELSE [copied |-> copies[1].copied + copies[2].copied
                         + copies[3].copied + copies[4].copied,
              group_stride |-> group_stride,
              overflowed |-> overflowed, status |-> "built",
              regions |-> [i \in 1..4 |-> Region(copies[i].range, group_stride)],
              buffer_size |-> total_size]

\* no shader binding table requested; a 64-bit build on a device with
\* 32-byte handles and 64-byte base alignment
SbtNew ==
    /\ rt_properties = [shader_group_handle_size |-> 32,
                        shader_group_base_alignment |-> 64]
    /\ sbt_info = [raygen |-> <<>>, miss |-> <<>>, hit |-> <<>>, callable |-> <<>>]
    /\ usize_bits = 64
    /\ sbt = <<>>

\* Device::create_shader_binding_table
create_shader_binding_table ==
    /\ dev_state = "live"
    /\ sbt = <<>>
    /\ LET r == ShaderBindingTableOf(rt_properties, sbt_info, usize_bits, overflow_checks)
       IN  /\ sbt' = <<r>>
           /\ IF r.status = "built"
              THEN Create("buffers", 1) /\ UNCHANGED dev_state
              ELSE dev_state' = "panicked" /\ UNCHANGED <<created, slabs, create_calls>>
    /\ UNCHANGED <<destroy_log, rt_properties, sbt_info, usize_bits, descVars, replayVars, moreVars,
                   encVars, swapVars, frameVars, clientVars>>

(***************************************************************************)
(* Descriptor set layouts, their DescriptorSizes and descriptor pools.     *)
(***************************************************************************)
DESCRIPTOR_TYPES_COUNT == 12

\* a + b on u32 with wrap-around
AddU32(a, b) ==
    LET lo == a[2] + b[2]
        hi == a[1] + b[1] + (lo \div Limb)
    IN  <<hi % Limb, lo % Limb>>

\* a + b panics when the build checks overflow and wraps when it does not
AddOverflows(a, b, checks) ==
    checks /\ a[1] + b[1] + ((a[2] + b[2]) \div Limb) >= Limb

\* DescriptorSetLayoutBinding: Sampler, UniformBuffer and AccelerationStructure
\* bindings with counts 0, 1, 2 and 2^31
Bindings ==
    [descriptor_type : {0, 6, 11},
     count : {<<0, 0>>, <<0, 1>>, <<0, 2>>, <<32768, 0>>}]

BindingLists == SeqsUpTo(Bindings, MaxBindings)

\* DescriptorSizesBuilder::zero
ZeroSizes == [i \in 0..(DESCRIPTOR_TYPES_COUNT - 1) |-> <<0, 0>>]

\* DescriptorSizesBuilder::from_bindings: add_binding for each binding in turn
RECURSIVE FromBindings(_, _, _)
FromBindings(sizes, bindings, checks) ==
    IF bindings = <<>> THEN [panicked |-> FALSE, sizes |-> sizes]
    ELSE LET b == Head(bindings)
         IN  IF AddOverflows(sizes[b.descriptor_type], b.count, checks)
             THEN [panicked |-> TRUE, sizes |-> sizes]
             ELSE FromBindings(
                    [sizes EXCEPT ![b.descriptor_type] = AddU32(@, b.count)],
                    Tail(bindings), checks)

\* variant: every type gets a pool size, also one that counts no descriptor
BuildAll(sizes, i) ==
    [k \in 1..DESCRIPTOR_TYPES_COUNT |->
        [descriptor_type |-> k - 1, descriptor_count |-> sizes[k - 1]]]

\* DescriptorSizesBuilder::build and DescriptorSizes::as_slice: one pool
\* size per type that counts at least one descriptor, in type order
RECURSIVE Build(_, _)
Build(sizes, i) ==
    IF i = DESCRIPTOR_TYPES_COUNT THEN <<>>
    ELSE (IF sizes[i] # <<0, 0>>
          THEN <<[descriptor_type |-> i, descriptor_count |-> sizes[i]]>>
          ELSE <<>>) \o Build(sizes, i + 1)

\* Encoder::new for the second encoder, on a fresh command buffer
ReplayNew ==
    /\ commands_b = <<>>
    /\ enc_state_b = "open"
    /\ recording_b = FALSE
    /\ native_b = <<>>

\* no layout and no descriptor set created yet; `info` is what the client
\* is going to pass to create_descriptor_set_layout
DescriptorsNew(info) ==
    /\ layout_info = info
    /\ layout_sizes = <<>>
    /\ pool_infos = <<>>

\* select_one has not been called; `list` is what the instance enumerates
SelectNew(list) ==
    /\ devices = list
    /\ selection = <<>>

\* Mesh::new(TriangleList)
MeshNew ==
    /\ mesh = [indices |-> <<>>, primitive_topology |-> "TriangleList", attributes |-> <<>>]
    /\ mesh_state = "ready"
    /\ index_variant = "U16"
    /\ blas = <<>>

\* TonemapPass::new / RasterPass::new: an empty cache, no input view
PassNew ==
    /\ framebuffers = <<>>
    /\ initial_images = <<<<>>, <<>>>>
    /\ set_writes = <<<<>>, <<>>>>
    /\ recorded = <<>>
    /\ pass_log = <<>>

\* UIPass::new: texture_version 0, no font image, descriptor sets unwritten;
\* `version` is the version of the UI library's font atlas
UiNew(version) ==
    /\ texture = version
    /\ ui_pass = [texture_version |-> 0, font_image |-> <<>>,
                  descriptor_sets |-> <<<<>>, <<>>>>, font_builds |-> <<>>]

\* RayTracingPass::new: the output image is created in no layout; it has not
\* been traced into nor sampled
RtNew ==
    /\ raytracing_output = <<>>
    /\ rt_commands = <<>>
    /\ output_image = [layout |-> "UNDEFINED", traced_in |-> <<>>, sampled_in |-> <<>>]
    /\ host_buffers = [globals_buffer |-> <<>>, instances_buffer |-> <<>>]

\* Queue::new: a null pool, nothing allocated
QueueNew ==
    /\ pool = <<>>
    /\ command_pools = 0
    /\ command_buffers = <<>>
    /\ encoders = <<>>

\* one native swapchain created per configure call so far, each with the
\* one before it as its old swapchain
ChainsNew ==
    swapchain_infos = [i \in DOMAIN image_state |-> [old_swapchain |-> i - 1]]

\* the state of the start-up inputs and of the passes before their first use
MoreNew ==
    /\ SelectNew(<<>>)
    /\ MeshNew
    /\ PassNew
    /\ UiNew(0)
    /\ RtNew
    /\ ChainsNew
    /\ QueueNew

\* nothing has been created through the device beyond what Init registers
AuxNew ==
    /\ DescriptorsNew(<<>>)
    /\ SbtNew
    /\ ReplayNew
    /\ MoreNew

\* Device::create_descriptor_set_layout
create_descriptor_set_layout ==
    /\ dev_state = "live"
    /\ create_calls < MaxCreates
    /\ Create("descriptor_set_layouts", 1)
    /\ LET r == FromBindings(ZeroSizes, layout_info, overflow_checks)
       IN  IF r.panicked
           THEN dev_state' = "panicked" /\ UNCHANGED layout_sizes
           ELSE layout_sizes' = <<Build(r.sizes, 0)>> /\ UNCHANGED dev_state
    /\ UNCHANGED <<destroy_log, layout_info, pool_infos, sbtVars, replayVars, moreVars,
                   encVars, swapVars, frameVars, clientVars>>

\* Device::create_descriptor_set: one pool sized by the layout, max_sets 1
create_descriptor_set ==
    /\ dev_state = "live"
    /\ create_calls < MaxCreates
    /\ layout_sizes # <<>>
    /\ Create("descriptor_pools", 1)
    /\ pool_infos' = Append(pool_infos, [max_sets |-> 1, pool_sizes |-> layout_sizes[1]])
    /\ UNCHANGED <<destroy_log, dev_state, layout_info, layout_sizes, sbtVars, replayVars, moreVars,
                   encVars, swapVars, frameVars, clientVars>>

(***************************************************************************)
(* Device, Queue and presentation engine.                                  *)
(***************************************************************************)
NumImages == 3
SemaphoresPerImage == 3
NumFences == 2

\* the stage at which the pipelines let a submission wait for a semaphore
WaitStage == "COLOR_ATTACHMENT_OUTPUT"

\* what Queue::submit and Queue::present hand to the native queue
QueueOp(kind, pass, wait, signal, fence, image, frame_no, command_buffer) ==
    [kind |-> kind, pass |-> pass, wait |-> wait, signal |-> signal,
     fence |-> fence, image |-> image, frame_no |-> frame_no,
     command_buffer |-> command_buffer,
     wait_stages |-> IF kind = "submit" THEN [i \in DOMAIN wait |-> WaitStage] ELSE <<>>]

\* Device::create_semaphore, count times
CreateSemaphores(slab, count) == slab \o [k \in 1..count |-> "unsignaled"]

\* Queue::submit
Submit(pass, wait, signal, fence, frame_no, command_buffer) ==
    gpu_queue' = Append(gpu_queue, QueueOp("submit", pass, wait, signal, fence, <<>>, frame_no,
                                           <<command_buffer>>))

\* variant: a pool for every encoder
PoolIsNullAlways(p) == TRUE

\* `self.pool.is_null()`
PoolIsNull(p) == p = <<>>

\* Encoder::new
Encoder_new(command_buffer) == [commands |-> <<>>, command_buffer |-> command_buffer]

\* the handle allocate_command_buffers returns next
NextCommandBuffer == Len(command_buffers) + 1

\* allocate_command_buffers with level PRIMARY and command_buffer_count 1
Allocated(buffers, p) ==
    Append(buffers, [pool |-> p, level |-> "PRIMARY", finished |-> FALSE, submits |-> 0])

\* Encoder::finish on the buffer's encoder, and Queue::submit of the buffer
FinishedAndSubmitted(buffers, h) ==
    [buffers EXCEPT ![h] = [@ EXCEPT !.finished = TRUE, !.submits = @ + 1]]

\* Queue::create_enconder, and whether the caller goes on to finish the
\* encoder and submit its command buffer
CreateEnconder(submits_it) ==
    LET p == IF PoolIsNull(pool) THEN command_pools + 1 ELSE pool[1]
        h == NextCommandBuffer
    IN  /\ pool' = <<p>>
        /\ command_pools' = IF PoolIsNull(pool) THEN command_pools + 1 ELSE command_pools
        /\ command_buffers' = IF submits_it
                              THEN FinishedAndSubmitted(Allocated(command_buffers, p), h)
                              ELSE Allocated(command_buffers, p)
        /\ encoders' = Append(encoders, Encoder_new(h))

\* Queue::present: waits on the image's release semaphore
\* variant: present gated on the semaphore the acquire signals
PresentOpWaitsAcquire(img) ==
    QueueOp("present", "present", <<img.wait>>, <<>>, <<>>,
            <<[handle |-> img.handle, index |-> img.index]>>, <<>>, <<>>)

\* Queue::present: the operation queued
PresentOp(img) ==
    QueueOp("present", "present", <<img.signal>>, <<>>, <<>>,
            <<[handle |-> img.handle, index |-> img.index]>>, <<>>, <<>>)

Present(img) ==
    /\ gpu_queue' = Append(gpu_queue, PresentOp(img))
    /\ image_state' = [image_state EXCEPT ![img.handle][img.index + 1] = "queued"]

(***************************************************************************)
(* The command list of RayTracingPass::draw and what its execution does to *)
(* the layout of the output image.                                         *)
(***************************************************************************)
\* RayTracingPass.output_image
OutputImage == "output_image"

\* encoder.pipeline_barrier(src, dst, src_access_mask, dst_access_mask, images)
Barrier(src, dst, src_access_mask, dst_access_mask, image_barriers) ==
    [tag |-> "PipelineBarrier", src |-> src, dst |-> dst,
     src_access_mask |-> src_access_mask, dst_access_mask |-> dst_access_mask,
     image_barriers |-> image_barriers]

\* the commands RayTracingPass::draw records, in order
RayTracingCommands ==
    <<Barrier("ACCELERATION_STRUCTURE_BUILD_KHR", "ACCELERATION_STRUCTURE_BUILD_KHR",
              "ACCELERATION_STRUCTURE_WRITE_KHR", "ACCELERATION_STRUCTURE_READ_KHR", <<>>),
      [tag |-> "BuildAccelerationStructure", infos |-> <<1>>],
      [tag |-> "BindRayTracingPipeline"],
      [tag |-> "BindDescriptorSets"],
      Barrier("FRAGMENT_SHADER", "RAY_TRACING_SHADER_KHR", "MEMORY_WRITE", "MEMORY_WRITE",
              <<[old_layout |-> None, new_layout |-> "GENERAL"]>>),
      Barrier("ACCELERATION_STRUCTURE_BUILD_KHR", "RAY_TRACING_SHADER_KHR",
              "MEMORY_WRITE", "MEMORY_WRITE", <<>>),
      [tag |-> "TraceRays"],
      Barrier("RAY_TRACING_SHADER_KHR", "FRAGMENT_SHADER", "MEMORY_WRITE", "MEMORY_WRITE",
              <<[old_layout |-> "GENERAL", new_layout |-> "SHADER_READ_ONLY_OPTIMAL"]>>)>>

\* the native calls CommandBuffer::write makes for a command list
NativeCalls(list) == [i \in DOMAIN list |-> CommandCall(list[i])]

\* the layout after an image barrier: a transition from UNDEFINED is valid in
\* any layout, any other one only in the layout it names
RECURSIVE Transitioned(_, _)
Transitioned(barriers, layout) ==
    IF barriers = <<>> THEN layout
    ELSE Transitioned(Tail(barriers),
                      IF Head(barriers).old_layout \in {"UNDEFINED", layout}
                      THEN Head(barriers).new_layout
                      ELSE "INVALID")

\* the output image after the queue has executed the native calls
RECURSIVE Executed(_, _)
Executed(calls, img) ==
    IF calls = <<>> THEN img
    ELSE Executed(Tail(calls),
            IF Head(calls).call = "cmd_pipeline_barrier"
            THEN [img EXCEPT !.layout = Transitioned(Head(calls).image_memory_barriers, @)]
            ELSE IF Head(calls).call = "cmd_trace_rays_khr"
            THEN [img EXCEPT !.traced_in = <<img.layout>>]
            ELSE img)

\* the queue executes its operations in submission order, each one once the
\* semaphores it waits on are signaled
gpu_execute ==
    /\ gpu_queue # <<>>
    /\ LET op == Head(gpu_queue)
       IN  /\ \A s \in Range(op.wait) : semaphores[s] = "signaled"
           /\ semaphores' =
                [s \in DOMAIN semaphores |->
                    IF s \in Range(op.wait) THEN "unsignaled"
                    ELSE IF s \in Range(op.signal) THEN "signaled"
                    ELSE semaphores[s]]
           /\ fence_state' =
                [f \in DOMAIN fence_state |->
                    IF f \in Range(op.fence) THEN "signaled" ELSE fence_state[f]]
           /\ image_state' =
                IF op.image = <<>> THEN image_state
                ELSE [image_state EXCEPT ![op.image[1].handle][op.image[1].index + 1] = "free"]
           /\ output_image' =
                IF op.pass = "raytracing" THEN Executed(NativeCalls(rt_commands), output_image)
                ELSE IF op.pass = "tonemap"
                THEN [output_image EXCEPT !.sampled_in = <<output_image.layout>>]
                ELSE output_image
    /\ gpu_queue' = Tail(gpu_queue)
    /\ UNCHANGED <<inner, retired, free_semaphore, fence_frame, unwaited, frame,
                   pipeline_kind, pc, blases, call_log, encVars, descVars, sbtVars, replayVars,
                   selVars, meshVars, passVars, uiVars, raytracing_output, rt_commands,
                   host_buffers, swapchain_infos, queueVars, devVars, clientVars>>

(***************************************************************************)
(* Swapchain.                                                              *)
(***************************************************************************)
\* the SwapchainInner configure builds: per image three acquire and three
\* release semaphores, created in that order, both indices zero
ConfiguredInner(handle, base) ==
    [images |->
        [i \in 1..NumImages |->
            LET first == base + (i - 1) * 2 * SemaphoresPerImage
            IN  [acquire |-> [k \in 1..SemaphoresPerImage |-> first + k],
                 acquire_index |-> 0,
                 release |-> [k \in 1..SemaphoresPerImage |-> first + SemaphoresPerImage + k],
                 release_index |-> 0]],
     handle |-> handle]

\* the slot of the acquire array that is swapped with the free semaphore
AcquireSlot(im) == (im.acquire_index % SemaphoresPerImage) + 1

\* variant: the free semaphore is not swapped out of the image's array
FreeAfterSwapKept(im, free) == free

\* the semaphore that becomes the free one
FreeAfterSwap(im, free) == im.acquire[AcquireSlot(im)]

\* variant: every image draws its release semaphore from the first image's array
SignalOfFirstImage(inn, index) ==
    inn.images[1].release[(inn.images[index + 1].release_index % SemaphoresPerImage) + 1]

\* the release semaphore handed out with image `index`
SignalOf(inn, index) ==
    inn.images[index + 1].release[(inn.images[index + 1].release_index % SemaphoresPerImage) + 1]

\* the images the presentation engine can hand out
Acquirable(inn) == {i \in 0..(NumImages - 1) : image_state[inn.handle][i + 1] = "free"}

\* Swapchain::new
SwapchainNew ==
    /\ inner = <<>>
    /\ retired = <<>>
    /\ free_semaphore = 1
    /\ semaphores = CreateSemaphores(<<>>, 1)
    /\ image_state = <<>>
    /\ gpu_queue = <<>>
    /\ swapchain_image = <<>>
    /\ held = {}
    /\ acquires = 0

\* variant: every chain is created from scratch
OldSwapchainNull(chain) == 0

\* `match self.inner.take()`: the handle of the active chain, else null
OldSwapchain(chain) == IF chain = <<>> THEN 0 ELSE chain[1].handle

\* variant: the old chain is retired and the new one is never installed
ConfigureWithoutInner ==
    /\ retired' = retired \o inner
    /\ inner' = <<>>
    /\ semaphores' = CreateSemaphores(semaphores, NumImages * 2 * SemaphoresPerImage)
    /\ image_state' = Append(image_state, [i \in 1..NumImages |-> "free"])
    /\ created' = [created EXCEPT !["swapchains"] = @ + 1,
                                  !["semaphores"] = @ + NumImages * 2 * SemaphoresPerImage]
    /\ slabs' = [slabs EXCEPT
            !["swapchains"] = SlabInsert(@, created["swapchains"] + 1),
            !["semaphores"] = RegisterMany(@, created["semaphores"] + 1,
                                           NumImages * 2 * SemaphoresPerImage)]
    /\ create_calls' = create_calls + 1
    /\ swapchain_infos' = Append(swapchain_infos, [old_swapchain |-> OldSwapchain(inner)])
    /\ UNCHANGED <<free_semaphore, destroy_log, dev_state>>

\* Swapchain::configure
Configure ==
    /\ retired' = retired \o inner
    /\ inner' = <<ConfiguredInner(Len(image_state) + 1, Len(semaphores))>>
    /\ semaphores' = CreateSemaphores(semaphores, NumImages * 2 * SemaphoresPerImage)
    /\ image_state' = Append(image_state, [i \in 1..NumImages |-> "free"])
    /\ created' = [created EXCEPT !["swapchains"] = @ + 1,
                                  !["semaphores"] = @ + NumImages * 2 * SemaphoresPerImage]
    /\ slabs' = [slabs EXCEPT
            !["swapchains"] = SlabInsert(@, created["swapchains"] + 1),
            !["semaphores"] = RegisterMany(@, created["semaphores"] + 1,
                                           NumImages * 2 * SemaphoresPerImage)]
    /\ create_calls' = create_calls + 1
    /\ swapchain_infos' = Append(swapchain_infos, [old_swapchain |-> OldSwapchain(inner)])
    /\ UNCHANGED <<free_semaphore, destroy_log, dev_state>>

\* Swapchain::acquire_next_image when the native call returns `index`
AcquireNextImage(index) ==
    LET inn == inner[1]
        im == inn.images[index + 1]
        wait == free_semaphore
    IN  /\ semaphores' = [semaphores EXCEPT ![wait] = "signaled"]
        /\ image_state' = [image_state EXCEPT ![inn.handle][index + 1] = "acquired"]
        /\ free_semaphore' = FreeAfterSwap(im, free_semaphore)
        /\ inner' =
            <<[inn EXCEPT !.images[index + 1] =
                [acquire |-> [im.acquire EXCEPT ![AcquireSlot(im)] = free_semaphore],
                 acquire_index |-> im.acquire_index + 1,
                 release |-> im.release,
                 release_index |-> im.release_index + 1]]>>
        /\ swapchain_image' =
            <<[wait |-> wait, signal |-> SignalOf(inn, index),
               handle |-> inn.handle, index |-> index]>>
        /\ acquires' = acquires + 1
        /\ UNCHANGED retired

(***************************************************************************)
(* A client driving the Swapchain and the Queue directly (SpecSwapchain).  *)
(***************************************************************************)
configure ==
    /\ dev_state = "live"
    /\ Len(image_state) < MaxConfigures
    /\ Configure
    /\ UNCHANGED <<gpu_queue, encVars, stillVars, frameVars, clientVars>>

acquire_next_image ==
    /\ acquires < MaxAcquires
    /\ IF inner = <<>>
       THEN /\ swapchain_image' = <<>>
            /\ acquires' = acquires + 1
            /\ UNCHANGED <<inner, retired, free_semaphore, semaphores, image_state, held>>
       ELSE \E index \in Acquirable(inner[1]) :
                /\ AcquireNextImage(index)
                /\ held' = held \cup Range(swapchain_image')
    /\ UNCHANGED <<gpu_queue, encVars, auxVars, devVars, frameVars>>

\* the client renders into an acquired image and presents it: Queue::submit
\* waiting on the image's wait semaphore and signalling its release semaphore,
\* then Queue::present
present ==
    \E img \in held :
        /\ gpu_queue' = gpu_queue \o
                <<QueueOp("submit", "client", <<img.wait>>, <<img.signal>>, <<>>, <<>>, <<>>, <<>>),
                  PresentOp(img)>>
        /\ image_state' = [image_state EXCEPT ![img.handle][img.index + 1] = "queued"]
        /\ held' = held \ {img}
        /\ UNCHANGED <<inner, retired, free_semaphore, semaphores,
                       swapchain_image, acquires, encVars, auxVars, devVars, frameVars>>

\* PathTracingPipeline::new / RasterPipeline::new
PipelineNew(kind) ==
    /\ fence_state = [f \in 0..(NumFences - 1) |-> "unsignaled"]
    /\ fence_frame = [f \in 0..(NumFences - 1) |-> <<>>]
    /\ unwaited = {}
    /\ frame = 0
    /\ pipeline_kind = kind
    /\ pc = "idle"
    /\ blases = FALSE
    /\ call_log = <<>>

\* Encoder::new: an encoder nobody has recorded into
EncoderNew ==
    /\ commands = <<>>
    /\ enc_state = "open"
    /\ recording = FALSE
    /\ native = <<>>
    /\ writes = 0
    /\ last_call = [method |-> "new", arg_len |-> 0]
    /\ overflow_checks = TRUE

InitSwapchain ==
    /\ SwapchainNew
    /\ PipelineNew("path_tracing")
    /\ EncoderNew
    /\ DeviceWith([semaphores |-> 1, fences |-> NumFences])
    /\ AuxNew

NextSwapchain ==
    \/ configure
    \/ acquire_next_image
    \/ present
    \/ gpu_execute

SpecSwapchain == InitSwapchain /\ [][NextSwapchain]_vars

(***************************************************************************)
(* The framebuffer cache and the lazily bound input image of the pass that *)
(* renders into the target.  The cache is kept most recently used first.   *)
(***************************************************************************)
\* `LruCache::new(4)`
LruCapacity == 4

\* the position of `key` in the cache, 0 when it holds no entry for it
LruPosition(cache, key) ==
    IF \E i \in DOMAIN cache : cache[i].image = key
    THEN CHOOSE i \in DOMAIN cache : cache[i].image = key
    ELSE 0

\* the cache without the entry at position i
LruWithout(cache, i) == SubSeq(cache, 1, i - 1) \o SubSeq(cache, i + 1, Len(cache))

\* LruCache::get on a key the cache holds: the entry becomes the most recent
LruGet(cache, key) ==
    <<cache[LruPosition(cache, key)]>> \o LruWithout(cache, LruPosition(cache, key))

\* variant: a cache that never evicts
LruPutUnbounded(cache, entry) == <<entry>> \o cache

\* LruCache::put: replaces the entry of the key, else evicts the least
\* recently used entry of a full cache; the new entry is the most recent
LruPut(cache, entry) ==
    IF LruPosition(cache, entry.image) # 0
    THEN <<entry>> \o LruWithout(cache, LruPosition(cache, entry.image))
    ELSE IF Len(cache) >= LruCapacity
    THEN <<entry>> \o SubSeq(cache, 1, LruCapacity - 1)
    ELSE <<entry>> \o cache

\* variant: the native framebuffer goes with the cache entry
FramebufferDropDestroys(log, entries) ==
    log \o [i \in DOMAIN entries |->
               [native_handle |-> entries[i].framebuffer, kind |-> "framebuffers"]]

\* Framebuffer has no Drop: dropping the entries a put evicted makes no call
FramebufferDrop(log, entries) == log

\* variant: the input view is rebuilt on every draw
NeedsInitialImageAlways(images, frame_id) == TRUE

\* `match &self.initial_images[frame_id] { None => ...`
NeedsInitialImage(images, frame_id) == images[frame_id + 1] = <<>>

\* the image views a pass creates for a target it has no framebuffer for:
\* RasterPass adds a view of its depth image
ViewsOnMiss(pass) == IF pass = "raster" THEN 2 ELSE 1

\* the body of TonemapPass::draw / RasterPass::draw / UIPass::draw up to the
\* submission, as far as the device and the pass's cache are concerned
PassDraw(pass, target, input, frame_no) ==
    LET position == LruPosition(framebuffers, target)
        hit == position # 0
        views == IF hit THEN 0 ELSE ViewsOnMiss(pass)
        fbs == IF hit THEN 0 ELSE 1
        framebuffer == IF hit THEN framebuffers[position].framebuffer
                       ELSE created["framebuffers"] + 1
        cache == IF hit THEN LruGet(framebuffers, target)
                 ELSE LruPut(framebuffers, [image |-> target, framebuffer |-> framebuffer])
        evicted == SelectSeq(framebuffers,
                             LAMBDA e : \A i \in DOMAIN cache : cache[i] # e)
        frame_id == frame_no % 2
        lazy == pass = "tonemap" /\ NeedsInitialImage(initial_images, frame_id)
        font == pass = "ui" /\ texture # ui_pass.texture_version
        fonts == IF font THEN 1 ELSE 0
        inputs == IF lazy \/ font THEN 1 ELSE 0
        input_view == created["image_views"] + views + 1
    IN  /\ dev_state = "live"
        /\ framebuffers' = cache
        /\ destroy_log' = FramebufferDrop(destroy_log, evicted)
        /\ created' = [created EXCEPT !["framebuffers"] = @ + fbs,
                                      !["images"] = @ + fonts,
                                      !["image_views"] = @ + views + inputs]
        /\ slabs' = [slabs EXCEPT
                        !["framebuffers"] = RegisterMany(@, created["framebuffers"] + 1, fbs),
                        !["images"] = RegisterMany(@, created["images"] + 1, fonts),
                        !["image_views"] =
                            RegisterMany(@, created["image_views"] + 1, views + inputs)]
        /\ create_calls' = create_calls + fbs + fonts + views + inputs
        /\ initial_images' = IF lazy
                             THEN [initial_images EXCEPT ![frame_id + 1] = <<input_view>>]
                             ELSE initial_images
        /\ set_writes' = IF lazy
                         THEN [set_writes EXCEPT ![frame_id + 1] = Append(@, input_view)]
                         ELSE set_writes
        /\ recorded' = Append(recorded, [image |-> target, framebuffer |-> framebuffer,
                                         input |-> input,
                                         descriptor_set |-> IF pass = "tonemap"
                                                            THEN <<frame_id>> ELSE <<>>])
        /\ pass_log' =
              (IF hit THEN <<"get">>
               ELSE <<"get">> \o [i \in 1..views |-> "create_image_view"]
                    \o <<"create_framebuffer", "put">>)
              \o (IF lazy THEN <<"create_image_view", "write_descriptor_set">> ELSE <<>>)
              \o (IF font THEN <<"create_image", "create_image_view", "write_descriptor_set">>
                  ELSE <<>>)
              \o (IF pass = "tonemap" \/ font THEN <<"update_descriptor_sets">> ELSE <<>>)
              \o <<"create_enconder", "submit">>
        /\ UNCHANGED dev_state

(***************************************************************************)
(* The frame loop: Renderer::draw driving a pipeline (SpecFrame).          *)
(***************************************************************************)
\* variant: the wait starts one frame later
WaitsFenceLate(frame_no) == frame_no > 2

\* variant: every frame waits, also the first two
WaitsFenceAlways(frame_no) == frame_no >= 0

\* `if self.frame > 1`
WaitsFence(frame_no) == frame_no > 1

\* variant: one fence for every frame
FenceIndexSingle(frame_no) == 0

\* `self.fences[(self.frame % 2) as usize]`
FenceIndex(frame_no) == frame_no % NumFences

\* variant: the BLAS that was built is not put into the map
BlasInsertDropped(map) == map

\* `entry.insert(blas)` on the vacant entry of key 0
BlasInsert(map) == TRUE

\* Renderer::draw up to the acquire loop: a fresh encoder, and on the first
\* call the BLAS build, submitted without semaphores or fence
Renderer_draw ==
    /\ pc = "idle"
    /\ frame < MaxFrames
    /\ CreateEnconder(~blases)
    /\ IF ~blases
       THEN /\ CreateAll(BlasObjects)
            /\ Submit("blas", <<>>, <<>>, <<>>, <<>>, NextCommandBuffer)
            /\ call_log' = <<"create_enconder", "build_triangle_blas", "submit">>
       ELSE /\ call_log' = <<"create_enconder">>
            /\ UNCHANGED <<gpu_queue, created, slabs, create_calls>>
    /\ blases' = IF ~blases THEN BlasInsert(blases) ELSE blases
    /\ pc' = "acquire"
    /\ UNCHANGED <<inner, retired, free_semaphore, semaphores, image_state, fence_state,
                   fence_frame, unwaited, frame, pipeline_kind, encVars, descVars, sbtVars,
                   replayVars, passesVars, destroy_log, dev_state, clientVars>>

\* one turn of the acquire loop: acquire_next_image returns an image and the
\* loop is left, or it returns None, the swapchain is configured and the
\* loop goes round
Renderer_acquire ==
    /\ pc = "acquire"
    /\ IF inner = <<>>
       THEN /\ Configure
            /\ call_log' = call_log \o <<"acquire_next_image", "configure">>
            /\ acquires' = acquires + 1
            /\ UNCHANGED <<pc, swapchain_image>>
       ELSE /\ \E index \in Acquirable(inner[1]) : AcquireNextImage(index)
            /\ call_log' = Append(call_log, "acquire_next_image")
            /\ pc' = "pipeline"
            /\ UNCHANGED <<devVars, swapchain_infos>>
    /\ UNCHANGED <<gpu_queue, fence_state, fence_frame, unwaited, frame, pipeline_kind,
                   blases, held, encVars, stillVars>>

\* Pipeline::draw up to its first pass: wait for and reset the frame's fence
Pipeline_draw ==
    /\ pc = "pipeline"
    /\ LET fence == FenceIndex(frame)
       IN  IF WaitsFence(frame)
           THEN /\ fence_state[fence] = "signaled"
                /\ fence_state' = [fence_state EXCEPT ![fence] = "unsignaled"]
                /\ unwaited' = unwaited \ Range(fence_frame[fence])
                /\ call_log' = call_log \o <<"wait_fences", "reset_fences">>
           ELSE UNCHANGED <<fence_state, unwaited, call_log>>
    /\ pc' = IF pipeline_kind = "raster" THEN "raster" ELSE "raytracing"
    /\ UNCHANGED <<swapVars, fence_frame, frame, pipeline_kind, blases, encVars, auxVars, devVars, clientVars>>

\* Device::write_buffer: the bytes are in the buffer's memory when it returns
write_buffer(buffers, buffer, data) == [buffers EXCEPT ![buffer] = <<data>>]

\* RayTracingPass::draw: the host writes this frame's globals and instances
\* into the pass's two buffers and submits without semaphores or fence
RayTracingPass_draw ==
    /\ pc = "raytracing"
    /\ IF blases
       THEN /\ rt_commands' = RayTracingCommands
            /\ host_buffers' = write_buffer(write_buffer(host_buffers, "globals_buffer", frame),
                                            "instances_buffer", frame)
            /\ CreateEnconder(TRUE)
            /\ Submit("raytracing", <<>>, <<>>, <<>>, <<frame>>, NextCommandBuffer)
            /\ raytracing_output' = <<OutputImage>>
            /\ call_log' = call_log \o <<"create_enconder", "submit">>
            /\ pc' = "tonemap"
       ELSE \* `input.blases.get(&0u8).unwrap()` on a map without key 0
            /\ CreateEnconder(FALSE)
            /\ call_log' = Append(call_log, "create_enconder")
            /\ pc' = "panicked"
            /\ UNCHANGED <<rt_commands, host_buffers, gpu_queue, raytracing_output>>
    /\ UNCHANGED <<inner, retired, free_semaphore, semaphores, image_state, fence_state,
                   fence_frame, unwaited, frame, pipeline_kind, blases, encVars, descVars,
                   sbtVars, replayVars, selVars, meshVars, passVars, uiVars, output_image,
                   swapchain_infos, devVars, clientVars>>

\* the vk::Image behind a swapchain image: chains do not share images
TargetOf(img) == (img.handle - 1) * NumImages + img.index + 1

\* the pass that renders into the swapchain image, and the frame increment
FinalPass(pass) ==
    LET fence == FenceIndex(frame)
        img == swapchain_image[1]
    IN  /\ PassDraw(pass, TargetOf(img), raytracing_output, frame)
        /\ CreateEnconder(TRUE)
        /\ Submit(pass, <<img.wait>>, <<img.signal>>, <<fence>>, <<frame>>, NextCommandBuffer)
        /\ fence_frame' = [fence_frame EXCEPT ![fence] = <<frame>>]
        /\ unwaited' = unwaited \cup {frame}
        /\ call_log' = call_log \o <<"create_enconder", "submit_fenced">>
        /\ frame' = frame + 1
        /\ pc' = "present"
        /\ UNCHANGED <<inner, retired, free_semaphore, semaphores, image_state, fence_state,
                       pipeline_kind, blases, encVars, descVars, sbtVars, replayVars,
                       selVars, meshVars, uiVars, rtVars, swapchain_infos, clientVars>>

TonemapPass_draw == pc = "tonemap" /\ FinalPass("tonemap")

RasterPass_draw == pc = "raster" /\ FinalPass("raster")

\* Renderer::draw's last step
Queue_present ==
    /\ pc = "present"
    /\ Present(swapchain_image[1])
    /\ call_log' = Append(call_log, "present")
    /\ pc' = "idle"
    /\ UNCHANGED <<inner, retired, free_semaphore, semaphores, fence_state, fence_frame,
                   unwaited, frame, pipeline_kind, blases, encVars, auxVars, devVars, clientVars>>

\* after Renderer::new: the swapchain configured once, the pipeline built
\* variant: Renderer::new without the configure of its swapchain
InitFrameUnconfigured ==
    /\ SwapchainNew
    /\ PipelineNew("path_tracing")
    /\ EncoderNew
    /\ DeviceWith(Together([semaphores |-> 1, fences |-> NumFences],
                           PipelineObjects("path_tracing")))
    /\ AuxNew

\* the Renderer that Renderer::new returns: the swapchain configured, the
\* pipeline and its passes built
InitFrame ==
    /\ inner = <<ConfiguredInner(1, 1)>>
    /\ retired = <<>>
    /\ free_semaphore = 1
    /\ semaphores = CreateSemaphores(<<>>, 1 + NumImages * 2 * SemaphoresPerImage)
    /\ image_state = <<[i \in 1..NumImages |-> "free"]>>
    /\ gpu_queue = <<>>
    /\ swapchain_image = <<>>
    /\ held = {}
    /\ acquires = 0
    /\ \E kind \in {"path_tracing", "raster"} :
          /\ PipelineNew(kind)
          /\ DeviceWith(Together([semaphores |-> 1 + NumImages * 2 * SemaphoresPerImage,
                                  fences |-> NumFences,
                                  swapchains |-> 1],
                                 PipelineObjects(kind)))
    /\ EncoderNew
    /\ AuxNew

NextFrame ==
    \/ Renderer_draw
    \/ Renderer_acquire
    \/ Pipeline_draw
    \/ RayTracingPass_draw
    \/ TonemapPass_draw
    \/ RasterPass_draw
    \/ Queue_present
    \/ gpu_execute

SpecFrame == InitFrame /\ [][NextFrame]_vars

(***************************************************************************)
(* Encoder methods.                                                        *)
(***************************************************************************)
Push(cmd, method, arg_len) ==
    /\ enc_state = "open"
    /\ Len(commands) < MaxCommands
    /\ commands' = Append(commands, cmd)
    /\ last_call' = [method |-> method, arg_len |-> arg_len]
    /\ UNCHANGED <<enc_state, recording, native, writes, overflow_checks>>
    /\ UNCHANGED <<swapVars, frameVars, clientVars, devVars, auxVars>>

begin_render_pass ==
    \E cmd \in BeginRenderPassCommands : Push(cmd, "begin_render_pass", Len(cmd.clears))

end_render_pass == Push([tag |-> "EndRenderPass"], "end_render_pass", 0)

bind_graphics_pipeline == Push([tag |-> "BindGraphicsPipeline"], "bind_graphics_pipeline", 0)

bind_ray_tracing_pipeline ==
    Push([tag |-> "BindRayTracingPipeline"], "bind_ray_tracing_pipeline", 0)

bind_descriptor_sets == Push([tag |-> "BindDescriptorSets"], "bind_descriptor_sets", 0)

set_viewport == Push([tag |-> "SetViewport"], "set_viewport", 0)

set_scissor == Push([tag |-> "SetScissor"], "set_scissor", 0)

draw == \E cmd \in DrawCommands : Push(cmd, "draw", 0)

draw_indexed == \E cmd \in DrawIndexedCommands : Push(cmd, "draw_indexed", 0)

update_buffer == Push([tag |-> "UpdateBuffer"], "update_buffer", 0)

bind_vertex_buffers == Push([tag |-> "BindVertexBuffers"], "bind_vertex_buffers", 0)

bind_index_buffer == Push([tag |-> "BindIndexBuffer"], "bind_index_buffer", 0)

\* variant: no early return on an empty slice
build_acceleration_structure_always_pushes ==
    \E infos \in InfoSlices :
        Push([tag |-> "BuildAccelerationStructure", infos |-> infos],
             "build_acceleration_structure", Len(infos))

build_acceleration_structure ==
    \E infos \in InfoSlices :
        IF infos = <<>>
        THEN /\ enc_state = "open"
             /\ last_call' = [method |-> "build_acceleration_structure", arg_len |-> 0]
             /\ UNCHANGED <<commands, enc_state, recording, native, writes, overflow_checks>>
             /\ UNCHANGED <<swapVars, frameVars, clientVars, devVars, auxVars>>
        ELSE Push([tag |-> "BuildAccelerationStructure", infos |-> infos],
                  "build_acceleration_structure", Len(infos))

trace_rays == Push([tag |-> "TraceRays"], "trace_rays", 0)

pipeline_barrier ==
    \E cmd \in PipelineBarrierCommands :
        Push(cmd, "pipeline_barrier", Len(cmd.image_barriers))

\* Encoder::finish: consumes the encoder, writes its commands once
finish ==
    /\ enc_state = "open"
    /\ LET r == WriteCommands(recording, native, commands, overflow_checks)
       IN  /\ native' = r.log
           /\ enc_state' = IF r.panicked THEN "panicked" ELSE "finished"
           /\ writes' = IF r.panicked THEN writes ELSE writes + 1
    /\ recording' = TRUE
    /\ last_call' = [method |-> "finish", arg_len |-> Len(commands)]
    /\ UNCHANGED <<commands, overflow_checks>>
    /\ UNCHANGED <<swapVars, frameVars, clientVars, devVars, auxVars>>

\* CommandBuffer::write called again on the buffer finish returned
write ==
    /\ enc_state = "finished"
    /\ writes < MaxWrites
    /\ LET cmds == <<[tag |-> "EndRenderPass"]>>
           r == WriteCommands(recording, native, cmds, overflow_checks)
       IN  /\ native' = r.log
           /\ enc_state' = IF r.panicked THEN "panicked" ELSE "finished"
           /\ writes' = writes + 1
           /\ last_call' = [method |-> "write", arg_len |-> Len(cmds)]
    /\ recording' = TRUE
    /\ UNCHANGED <<commands, overflow_checks>>
    /\ UNCHANGED <<swapVars, frameVars, clientVars, devVars, auxVars>>

InitEncoder ==
    /\ commands = <<>>
    /\ enc_state = "open"
    /\ recording = FALSE
    /\ native = <<>>
    /\ writes = 0
    /\ last_call = [method |-> "new", arg_len |-> 0]
    /\ overflow_checks \in BOOLEAN
    /\ SwapchainNew
    /\ PipelineNew("path_tracing")
    /\ DeviceWith([semaphores |-> 1, fences |-> NumFences])
    /\ AuxNew

NextEncoder ==
    \/ begin_render_pass
    \/ end_render_pass
    \/ bind_graphics_pipeline
    \/ bind_ray_tracing_pipeline
    \/ bind_descriptor_sets
    \/ set_viewport
    \/ set_scissor
    \/ draw
    \/ draw_indexed
    \/ update_buffer
    \/ bind_vertex_buffers
    \/ bind_index_buffer
    \/ build_acceleration_structure
    \/ trace_rays
    \/ pipeline_barrier
    \/ finish
    \/ write

SpecEncoder == InitEncoder /\ [][NextEncoder]_vars

(***************************************************************************)
(* Properties of the Encoder / CommandBuffer replay (SpecEncoder).         *)
(***************************************************************************)
\* the native call each Command variant is expected to become
ExpectedCall(tag) ==
    CASE tag = "BeginRenderPass" -> "cmd_begin_render_pass"
      [] tag = "EndRenderPass" -> "cmd_end_render_pass"
      [] tag = "BindGraphicsPipeline" -> "cmd_bind_pipeline"
      [] tag = "BindRayTracingPipeline" -> "cmd_bind_pipeline"
      [] tag = "BindDescriptorSets" -> "cmd_bind_descriptor_sets"
      [] tag = "SetViewport" -> "cmd_set_viewport"
      [] tag = "SetScissor" -> "cmd_set_scissor"
      [] tag = "Draw" -> "cmd_draw"
      [] tag = "DrawIndexed" -> "cmd_draw_indexed"
      [] tag = "UpdateBuffer" -> "cmd_update_buffer"
      [] tag = "BindVertexBuffers" -> "cmd_bind_vertex_buffers"
      [] tag = "BindIndexBuffer" -> "cmd_bind_index_buffer"
      [] tag = "BuildAccelerationStructure" -> "cmd_build_acceleration_structures_khr"
      [] tag = "TraceRays" -> "cmd_trace_rays_khr"
      [] tag = "PipelineBarrier" -> "cmd_pipeline_barrier"

\* finish has returned and nothing else has written to the command buffer
FinishedOnce == enc_state = "finished" /\ writes = 1

CountCalls(name) == Cardinality({i \in DOMAIN native : native[i].call = name})

\* C5: when Encoder::finish returns, the command buffer holds one recording
\* session: one begin, then exactly one native call per recorded command, in
\* the order the commands were recorded, then one end.
C5_FinishReplaysInOrder ==
    FinishedOnce =>
        /\ Len(native) = Len(commands) + 2
        /\ native[1].call = "begin_command_buffer"
        /\ native[Len(native)].call = "end_command_buffer"
        /\ CountCalls("begin_command_buffer") = 1
        /\ CountCalls("end_command_buffer") = 1
        /\ \A i \in DOMAIN commands :
            /\ native[i + 1].call = ExpectedCall(commands[i].tag)
            /\ commands[i].tag = "Draw" =>
                   native[i + 1].first_vertex = U32(commands[i].vertices.start)
            /\ commands[i].tag = "BeginRenderPass" =>
                   Len(native[i + 1].clear_values) = commands[i].attachments

C5_Witness ==
    /\ FinishedOnce
    /\ Len(commands) = 2
    /\ commands[1].tag = "Draw"
    /\ commands[2].tag = "BeginRenderPass"

\* C6: begin is issued once and end is issued once per command buffer, and
\* no native recording call follows the end, over any sequence of writes.
C6_SingleRecordingSession ==
    /\ CountCalls("begin_command_buffer") <= 1
    /\ CountCalls("end_command_buffer") <= 1
    /\ \A i \in DOMAIN native :
        native[i].call = "end_command_buffer" => i = Len(native)

\* C7: replaying a BeginRenderPass whose clear count differs from the
\* attachment count panics, so a replay that returned holds no such command.
C7_ClearArityMismatchPanics ==
    enc_state = "finished" =>
        \A i \in DOMAIN commands :
            commands[i].tag = "BeginRenderPass" =>
                Len(commands[i].clears) = commands[i].attachments

\* C8: Draw and DrawIndexed are replayed with counts end - start of their own
\* ranges, and a command whose ranges have end >= start never underflows.
C8_DrawCountsFromOwnRanges ==
    /\ FinishedOnce =>
        \A i \in DOMAIN commands :
            /\ (/\ commands[i].tag = "Draw"
                /\ commands[i].vertices.end >= commands[i].vertices.start
                /\ commands[i].instances.end >= commands[i].instances.start) =>
                    /\ native[i + 1].vertex_count =
                         U32(commands[i].vertices.end - commands[i].vertices.start)
                    /\ native[i + 1].instance_count =
                         U32(commands[i].instances.end - commands[i].instances.start)
            /\ (/\ commands[i].tag = "DrawIndexed"
                /\ commands[i].indices.end >= commands[i].indices.start
                /\ commands[i].instances.end >= commands[i].instances.start) =>
                    /\ native[i + 1].index_count =
                         U32(commands[i].indices.end - commands[i].indices.start)
                    /\ native[i + 1].instance_count =
                         U32(commands[i].instances.end - commands[i].instances.start)
    /\ (enc_state = "panicked" /\ writes = 0) =>
        LET c == commands[Len(native)]
        IN  c.tag = "DrawIndexed" =>
                \/ c.indices.end < c.indices.start
                \/ c.instances.end < c.instances.start

\* C9: a PipelineBarrier command becomes one native barrier call with one
\* global memory barrier carrying the command's access masks, no buffer
\* barrier, and one image barrier per entry, in order, whose old layout is
\* UNDEFINED for None and the given layout otherwise.
C9_PipelineBarrierReplay ==
    FinishedOnce =>
        \A i \in DOMAIN commands :
            commands[i].tag = "PipelineBarrier" =>
                LET c == commands[i]
                    n == native[i + 1]
                IN  /\ n.call = "cmd_pipeline_barrier"
                    /\ Len(n.memory_barriers) = 1
                    /\ n.memory_barriers[1].src_access_mask = c.src_access_mask
                    /\ n.memory_barriers[1].dst_access_mask = c.dst_access_mask
                    /\ n.buffer_memory_barriers = <<>>
                    /\ Len(n.image_memory_barriers) = Len(c.image_barriers)
                    /\ \A k \in DOMAIN c.image_barriers :
                        /\ c.image_barriers[k].old_layout = None =>
                               n.image_memory_barriers[k].old_layout = "UNDEFINED"
                        /\ c.image_barriers[k].old_layout # None =>
                               n.image_memory_barriers[k].old_layout = c.image_barriers[k].old_layout
                        /\ n.image_memory_barriers[k].new_layout = c.image_barriers[k].new_layout

C9_Witness ==
    /\ FinishedOnce
    /\ \E i \in DOMAIN commands :
        /\ commands[i].tag = "PipelineBarrier"
        /\ Len(commands[i].image_barriers) = 1
        /\ commands[i].image_barriers[1].old_layout = None
        /\ commands[i].src_access_mask # commands[i].dst_access_mask

\* C10: build_acceleration_structure with an empty slice leaves the command
\* list as it was, with a non-empty slice it appends exactly one
\* BuildAccelerationStructure command holding that slice; no native build
\* call is ever issued with zero build infos.
C10_EmptyBuildIsNoOp ==
    /\ [][last_call'.method = "build_acceleration_structure" =>
            IF last_call'.arg_len = 0
            THEN commands' = commands
            ELSE /\ Len(commands') = Len(commands) + 1
                 /\ SubSeq(commands', 1, Len(commands)) = commands
                 /\ commands'[Len(commands')].tag = "BuildAccelerationStructure"
                 /\ Len(commands'[Len(commands')].infos) = last_call'.arg_len]_vars
    /\ [](\A i \in DOMAIN native :
            native[i].call = "cmd_build_acceleration_structures_khr" =>
                native[i].info_count > 0)

C10_Witness ==
    /\ last_call = [method |-> "build_acceleration_structure", arg_len |-> 0]
    /\ Len(commands) = 1
    /\ commands[1].tag = "BuildAccelerationStructure"

(***************************************************************************)
(* Properties of the frame loop (SpecFrame) and the Swapchain              *)
(* (SpecSwapchain).                                                        *)
(***************************************************************************)
\* the pipeline is past its fence wait and about to record and submit
Recording == pc \in {"raytracing", "tonemap", "raster"}

\* C1: a pipeline draw numbered k >= 2 has waited for the fence of draw k-2
\* before it records or submits anything, so at most two fenced submissions
\* are ever un-waited.
C1_WaitsTwoFramesBack ==
    /\ Cardinality(unwaited) <= 2
    /\ \A k \in unwaited : k >= frame - 2
    /\ (Recording /\ frame >= 2) =>
        /\ \A k \in unwaited : k = frame - 1
        /\ \A i \in DOMAIN gpu_queue :
            gpu_queue[i].fence # <<>> => gpu_queue[i].frame_no = <<frame - 1>>
        /\ \E i \in DOMAIN call_log :
            /\ call_log[i] = "wait_fences"
            /\ \A j \in DOMAIN call_log :
                call_log[j] \in {"submit", "submit_fenced"} => j > i

C1_Witness ==
    /\ frame = 3
    /\ pc = "tonemap"
    /\ unwaited = {2}
    /\ \E i \in DOMAIN gpu_queue : gpu_queue[i].fence # <<>>

\* the step in which the pipeline's fenced pass is submitted
FencedSubmission == pc \in {"tonemap", "raster"} /\ pc' = "present"

\* C2: the fenced submission of a draw is handed fences[frame % 2], frame
\* grows by one per draw, and at the submission that fence is unsignaled and
\* attached to no pending submission: never submitted before for frames 0
\* and 1, waited for and reset earlier in the same call afterwards.
C2_FenceFreeAtSubmission ==
    [][FencedSubmission =>
        LET op == gpu_queue'[Len(gpu_queue')]
        IN  /\ frame' = frame + 1
            /\ op.fence = <<frame % 2>>
            /\ fence_state[frame % 2] = "unsignaled"
            /\ \A i \in DOMAIN gpu_queue : gpu_queue[i].fence # op.fence
            /\ frame <= 1 => fence_frame[frame % 2] = <<>>
            /\ frame > 1 =>
                /\ fence_frame[frame % 2] = <<frame - 2>>
                /\ \E i \in DOMAIN call_log :
                    /\ call_log[i] = "wait_fences"
                    /\ call_log[i + 1] = "reset_fences"]_vars

C2_Witness ==
    /\ pc = "present"
    /\ frame = 4
    /\ fence_frame[1] = <<3>>
    /\ \E i \in DOMAIN call_log : call_log[i] = "reset_fences"

\* C3: no two images in flight (acquired and not yet presented) carry the
\* same release semaphore.
C3_InFlightSignalsDistinct ==
    \A x, y \in held : x # y => x.signal # y.signal

C3_Witness ==
    /\ Cardinality(held) = 2
    /\ acquires = 4
    /\ \E x \in held : inner[1].images[x.index + 1].release_index >= 2

\* the semaphore is signaled, or a queued operation is going to signal it
CarriesSignal(s) ==
    \/ semaphores[s] = "signaled"
    \/ \E i \in DOMAIN gpu_queue : s \in Range(gpu_queue[i].signal)

\* the step in which Renderer::draw acquires its image
Acquisition == pc = "acquire" /\ pc' = "pipeline"

\* C4: over frames of acquire, submit (waiting on wait, signalling signal)
\* and present (waiting on signal), neither the semaphore passed to the
\* native acquire nor the release semaphore handed back carries a signal
\* that no wait has consumed.
C4_AcquireSemaphoresClean ==
    [][Acquisition =>
        /\ swapchain_image'[1].wait = free_semaphore
        /\ ~CarriesSignal(free_semaphore)
        /\ ~CarriesSignal(swapchain_image'[1].signal)]_vars

C4_Witness ==
    /\ pc = "pipeline"
    /\ frame = 4
    /\ swapchain_image[1].wait = 1
    /\ inner[1].images[swapchain_image[1].index + 1].release_index = 5

(***************************************************************************)
(* Descriptor sizes: a client creates a layout from a list of bindings and *)
(* then descriptor sets from that layout.                                  *)
(***************************************************************************)
InitDescriptor ==
    /\ SwapchainNew
    /\ PipelineNew("path_tracing")
    /\ commands = <<>>
    /\ enc_state = "open"
    /\ recording = FALSE
    /\ native = <<>>
    /\ writes = 0
    /\ last_call = [method |-> "new", arg_len |-> 0]
    /\ overflow_checks \in BOOLEAN
    /\ DeviceWith([semaphores |-> 1, fences |-> NumFences])
    /\ layout_info \in BindingLists
    /\ layout_sizes = <<>>
    /\ pool_infos = <<>>
    /\ SbtNew
    /\ ReplayNew
    /\ MoreNew

NextDescriptor ==
    \/ create_descriptor_set_layout
    \/ create_descriptor_set

SpecDescriptor == InitDescriptor /\ [][NextDescriptor]_vars

\* the sum of `count` over the bindings of type t, as an unbounded number
\* <<multiples of Limb, rest>>
RECURSIVE TypeSum(_, _)
TypeSum(bindings, t) ==
    IF bindings = <<>> THEN <<0, 0>>
    ELSE LET b == Head(bindings)
             rest == TypeSum(Tail(bindings), t)
         IN  IF b.descriptor_type = t
             THEN LET lo == rest[2] + b.count[2]
                  IN  <<rest[1] + b.count[1] + (lo \div Limb), lo % Limb>>
             ELSE rest

FitsU32(bindings) ==
    \A t \in 0..(DESCRIPTOR_TYPES_COUNT - 1) : TypeSum(bindings, t)[1] < Limb

\* each type with a non-zero sum appears exactly once with that sum, and no
\* other type appears
SizesAreSums(pool_sizes, bindings) ==
    \A t \in 0..(DESCRIPTOR_TYPES_COUNT - 1) :
        LET at == {i \in DOMAIN pool_sizes : pool_sizes[i].descriptor_type = t}
        IN  IF TypeSum(bindings, t) = <<0, 0>>
            THEN at = {}
            ELSE /\ Cardinality(at) = 1
                 /\ \A i \in at : pool_sizes[i].descriptor_count = TypeSum(bindings, t)

LayoutCreated == created["descriptor_set_layouts"] > 0

PoolSizesAreSums ==
    /\ layout_sizes # <<>>
    /\ SizesAreSums(layout_sizes[1], layout_info)
    /\ Len(pool_infos) = created["descriptor_pools"]
    /\ \A i \in DOMAIN pool_infos :
        /\ pool_infos[i].max_sets = 1
        /\ pool_infos[i].pool_sizes = layout_sizes[1]

\* C11 (as stated): for every list of bindings the layout's pool sizes hold
\* each type with at least one descriptor exactly once, with the sum of the
\* counts of its bindings, and no type with a zero sum; every
\* create_descriptor_set makes exactly one pool with these sizes and max_sets 1.
C11_PoolSizesAreSums ==
    LayoutCreated => PoolSizesAreSums

\* C11 (amended): the same, for every list of bindings whose per-type sums
\* fit in 32 bits.
C11_PoolSizesAreSumsInU32 ==
    (LayoutCreated /\ FitsU32(layout_info)) => PoolSizesAreSums

\* two bindings of one type summing to 3, a type bound with count 0 only,
\* and a pool created from the layout
C11_Witness ==
    /\ Len(pool_infos) = 1
    /\ Len(layout_info) = 2
    /\ TypeSum(layout_info, 6) = <<0, 3>>
    /\ layout_info[1].descriptor_type = 6
    /\ layout_info[2].descriptor_type = 6

(***************************************************************************)
(* Shader binding table: one call of create_shader_binding_table on any    *)
(* device properties, table info and build target.                         *)
(***************************************************************************)
InitSbt ==
    /\ SwapchainNew
    /\ PipelineNew("path_tracing")
    /\ commands = <<>>
    /\ enc_state = "open"
    /\ recording = FALSE
    /\ native = <<>>
    /\ writes = 0
    /\ last_call = [method |-> "new", arg_len |-> 0]
    /\ overflow_checks \in BOOLEAN
    /\ DeviceWith([semaphores |-> 1, fences |-> NumFences])
    /\ DescriptorsNew(<<>>)
    /\ rt_properties \in [shader_group_handle_size : HandleSizes,
                          shader_group_base_alignment : BaseAlignments]
    /\ sbt_info \in ShaderBindingTableInfos
    /\ usize_bits \in {32, 64}
    /\ sbt = <<>>
    /\ ReplayNew
    /\ MoreNew

NextSbt ==
    \/ create_shader_binding_table

SpecSbt == InitSbt /\ [][NextSbt]_vars

\* a divides the value of w
Divides(a, w) == a # 0 /\ (w[1] * (Limb % a) + w[2]) % a = 0

RECURSIVE IsPowerOfTwo(_)
IsPowerOfTwo(a) == a = 1 \/ (a > 1 /\ a % 2 = 0 /\ IsPowerOfTwo(a \div 2))

StrideAligned(table) ==
    /\ Divides(rt_properties.shader_group_base_alignment, table.group_stride)
    /\ WideLE(Wide(rt_properties.shader_group_handle_size), table.group_stride)

\* C12 (as stated): for all (handle_size, base_alignment) pairs the stride
\* of a shader binding table is a multiple of base_alignment and at least
\* handle_size.
C12_StrideAligned ==
    \A i \in DOMAIN sbt : sbt[i].status = "built" => StrideAligned(sbt[i])

\* C12 (amended): the same, for every base_alignment that is a power of two.
C12_StrideAlignedPowerOfTwo ==
    \A i \in DOMAIN sbt :
        (/\ sbt[i].status = "built"
         /\ IsPowerOfTwo(rt_properties.shader_group_base_alignment))
        => StrideAligned(sbt[i])

\* a 33-byte handle on a 64-byte base alignment is rounded up to 64
C12_Witness ==
    /\ sbt # <<>>
    /\ sbt[1].status = "built"
    /\ rt_properties.shader_group_handle_size = 33
    /\ rt_properties.shader_group_base_alignment = 64
    /\ sbt[1].group_stride = <<0, 64>>

\* C13: an overflow in the offset arithmetic of create_shader_binding_table
\* always ends in a panic, never in a table.
C13_OverflowPanics ==
    \A i \in DOMAIN sbt : sbt[i].overflowed => sbt[i].status = "panicked"

(***************************************************************************)
(* Device: any sequence of create_* operations and Swapchain::configure,   *)
(* ended by cleanup.                                                       *)
(***************************************************************************)
\* create the native handle, register it in the slab of its kind
CreateHandle(kind) ==
    /\ dev_state = "live"
    /\ create_calls < MaxCreates
    /\ Create(kind, 1)
    /\ UNCHANGED <<destroy_log, dev_state, auxVars, encVars, frameVars, clientVars>>

create_buffer ==
    CreateHandle("buffers") /\ UNCHANGED swapVars

create_semaphore ==
    /\ CreateHandle("semaphores")
    /\ semaphores' = CreateSemaphores(semaphores, 1)
    /\ UNCHANGED <<inner, retired, free_semaphore, image_state, gpu_queue>>

create_fence ==
    CreateHandle("fences") /\ UNCHANGED swapVars

create_pipeline_layout ==
    CreateHandle("pipeline_layouts") /\ UNCHANGED swapVars

create_shader_module ==
    CreateHandle("shader_modules") /\ UNCHANGED swapVars

create_render_pass ==
    CreateHandle("render_passes") /\ UNCHANGED swapVars

create_graphics_pipeline ==
    CreateHandle("pipelines") /\ UNCHANGED swapVars

create_image ==
    CreateHandle("images") /\ UNCHANGED swapVars

create_image_view ==
    CreateHandle("image_views") /\ UNCHANGED swapVars

create_sampler ==
    CreateHandle("samplers") /\ UNCHANGED swapVars

create_framebuffer ==
    CreateHandle("framebuffers") /\ UNCHANGED swapVars

create_ray_tracing_pipeline ==
    CreateHandle("pipelines") /\ UNCHANGED swapVars

create_acceleration_structure ==
    CreateHandle("acceleration_structures") /\ UNCHANGED swapVars

\* the order in which Device::cleanup walks the slabs
CleanupOrder ==
    <<"buffers", "swapchains", "semaphores", "fences", "framebuffers",
      "image_views", "images", "samplers", "descriptor_pools",
      "descriptor_set_layouts", "pipeline_layouts", "pipelines", "render_passes",
      "shader_modules", "acceleration_structures">>

\* destroy_* for every entry of the slabs kinds[1], kinds[2], ...
RECURSIVE DestroyAll(_, _)
DestroyAll(kinds, registry) ==
    IF kinds = <<>> THEN <<>>
    ELSE [i \in DOMAIN registry[Head(kinds)] |->
            [native_handle |-> registry[Head(kinds)][i], kind |-> Head(kinds)]]
         \o DestroyAll(Tail(kinds), registry)

\* a native call of the teardown on an object that has one handle only
Call(kind) == [native_handle |-> 0, kind |-> kind]

\* the native calls of Device::cleanup: the slabs in order, then
\* destroy_instance, then destroy_device
CleanupCalls(registry) ==
    DestroyAll(CleanupOrder, registry) \o <<Call("instance"), Call("device")>>

\* Device::cleanup
cleanup ==
    /\ dev_state = "live"
    /\ destroy_log' = CleanupCalls(slabs)
    /\ dev_state' = "destroyed"
    /\ UNCHANGED <<created, slabs, create_calls, auxVars, encVars, swapVars,
                   frameVars, clientVars>>

InitDevice == InitSwapchain

NextDevice ==
    \/ create_buffer
    \/ create_semaphore
    \/ create_fence
    \/ create_descriptor_set_layout
    \/ create_descriptor_set
    \/ create_pipeline_layout
    \/ create_shader_module
    \/ create_render_pass
    \/ create_graphics_pipeline
    \/ create_image
    \/ create_image_view
    \/ create_sampler
    \/ create_framebuffer
    \/ create_ray_tracing_pipeline
    \/ create_acceleration_structure
    \/ configure
    \/ cleanup

SpecDevice == InitDevice /\ [][NextDevice]_vars

\* every destruction of kind `before` precedes every destruction of kind `after`
Precedes(before, after) ==
    \A i, j \in DOMAIN destroy_log :
        (destroy_log[i].kind = before /\ destroy_log[j].kind = after) => i < j

Destroyed(kind, native_handle) ==
    \E i \in DOMAIN destroy_log :
        /\ destroy_log[i] = [native_handle |-> native_handle, kind |-> kind]
        /\ \A j \in DOMAIN destroy_log : destroy_log[j].kind = "device" => i < j

\* C14: cleanup destroys every registered handle before the device, with
\* buffers, images, image views and samplers before descriptor pools and
\* layouts, every pipeline before any pipeline layout, and render passes and
\* shader modules after all other registered resources.
C14_CleanupOrder ==
    dev_state = "destroyed" =>
        /\ \A k \in Range(SlabKinds) : \A i \in DOMAIN slabs[k] : Destroyed(k, slabs[k][i])
        /\ \A b \in {"buffers", "images", "image_views", "samplers"} :
           \A a \in {"descriptor_pools", "descriptor_set_layouts"} : Precedes(b, a)
        /\ Precedes("pipelines", "pipeline_layouts")
        /\ \A k \in Range(SlabKinds) \ {"render_passes", "shader_modules"} :
           \A last \in {"render_passes", "shader_modules"} : Precedes(k, last)

RegisteredOnce ==
    \A k \in Range(SlabKinds) : \A h \in 1..created[k] :
        Cardinality({i \in DOMAIN slabs[k] : slabs[k][i] = h}) = 1

NoRemoval ==
    \A k \in Range(SlabKinds) :
        /\ Len(slabs'[k]) >= Len(slabs[k])
        /\ \A i \in DOMAIN slabs[k] : slabs'[k][i] = slabs[k][i]

\* C15: every native handle created so far is in the slab of its kind
\* exactly once, and no operation removes a slab entry.
C15_RegisteredExactlyOnce ==
    [](dev_state = "live" => RegisteredOnce) /\ [][dev_state = "live" => NoRemoval]_vars

\* a configured swapchain with its semaphores, a buffer and an acceleration
\* structure are all registered
C15_Witness ==
    /\ dev_state = "live"
    /\ created["swapchains"] = 1
    /\ created["semaphores"] = 1 + NumImages * 2 * SemaphoresPerImage
    /\ created["buffers"] = 1
    /\ created["acceleration_structures"] = 1
    /\ Len(slabs["semaphores"]) = created["semaphores"]

(***************************************************************************)
(* Renderer::draw: the order of its steps, and what present waits on.      *)
(***************************************************************************)
\* within the calls of the current draw, every `first` precedes every `second`
Before(first, second) ==
    \A i, j \in DOMAIN call_log :
        (call_log[i] = first /\ call_log[j] = second) => i < j

\* C16: in every Renderer::draw the image is acquired first, then any
\* missing BLAS is built and submitted, then the pipeline draws, then the
\* image is presented.
C16_DrawOrder ==
    /\ Before("acquire_next_image", "build_triangle_blas")
    /\ Before("acquire_next_image", "submit_fenced")
    /\ Before("build_triangle_blas", "submit_fenced")
    /\ Before("submit_fenced", "present")

\* the step in which Renderer::draw presents its image
Presenting == pc = "present" /\ pc' = "idle"

\* a signal of semaphore s is pending: s is signaled, or a queued submission
\* is going to signal it
SignalPending(s) ==
    \/ semaphores[s] = "signaled"
    \/ \E i \in DOMAIN gpu_queue :
        gpu_queue[i].kind = "submit" /\ s \in Range(gpu_queue[i].signal)

\* C17: Queue::present waits on exactly the release semaphore that
\* acquire_next_image returned for the presented image, and a submission
\* signalling that semaphore was queued before the present.
C17_PresentWaitsOnRelease ==
    [][Presenting =>
        LET op == gpu_queue'[Len(gpu_queue')]
            img == swapchain_image[1]
        IN  /\ Len(gpu_queue') = Len(gpu_queue) + 1
            /\ op.kind = "present"
            /\ op.image = <<[handle |-> img.handle, index |-> img.index]>>
            /\ op.wait = <<img.signal>>
            /\ img.signal \in Range(inner[1].images[img.index + 1].release)
            /\ SignalPending(img.signal)]_vars

\* a present is queued behind the final pass submission that signals the
\* semaphore it waits on
C17_Witness ==
    /\ pc = "idle"
    /\ frame = 2
    /\ \E i, j \in DOMAIN gpu_queue :
        /\ i < j
        /\ gpu_queue[i].pass \in {"tonemap", "raster"}
        /\ gpu_queue[j].kind = "present"
        /\ gpu_queue[j].wait = gpu_queue[i].signal
        /\ semaphores[gpu_queue[j].wait[1]] = "unsignaled"

(***************************************************************************)
(* Swapchain::acquire_next_image and the active chain.                     *)
(***************************************************************************)
\* a step in which the client's acquire_next_image returns
AcquireReturns == acquires' = acquires + 1

\* C18: acquire_next_image returns None exactly when there is no active
\* chain, and once configure has been called the active chain is always
\* there, so that every later acquire returns an image (of the active chain).
C18_NoneOnlyWithoutChain ==
    /\ [][AcquireReturns =>
            /\ (swapchain_image' = <<>>) <=> (inner = <<>>)
            /\ created["swapchains"] > 0 =>
                /\ swapchain_image' # <<>>
                /\ swapchain_image'[1].handle = inner[1].handle]_vars
    /\ [](created["swapchains"] > 0 => inner # <<>>)

\* one acquire returned None before the first configure, the next one an
\* image of the configured chain
C18_Witness ==
    /\ acquires = 2
    /\ created["swapchains"] = 1
    /\ Cardinality(held) = 1
    /\ gpu_queue = <<>>
    /\ swapchain_image # <<>>
    /\ Cardinality({i \in 1..NumImages : image_state[1][i] # "free"}) = 1

(***************************************************************************)
(* The acquire loop of Renderer::draw (SpecDraw).  The loop keeps running  *)
(* and the queue keeps executing, hence the two fairness conditions.       *)
(***************************************************************************)
SpecDraw ==
    /\ InitFrame
    /\ [][NextFrame]_vars
    /\ WF_vars(Renderer_acquire)
    /\ WF_vars(gpu_execute)

\* the configure calls of the current draw
ConfiguresInDraw == Cardinality({i \in DOMAIN call_log : call_log[i] = "configure"})

record_b ==
    /\ enc_state_b = "open"
    /\ Len(commands_b) < Len(commands)
    /\ commands_b' = Append(commands_b, commands[Len(commands_b) + 1])
    /\ UNCHANGED <<enc_state_b, recording_b, native_b>>
    /\ UNCHANGED <<encVars, swapVars, frameVars, clientVars, devVars, descVars, sbtVars, moreVars>>

\* Encoder::finish of the second encoder: CommandBuffer::write of its own
\* commands on its own command buffer
finish_b ==
    /\ enc_state_b = "open"
    /\ LET r == WriteCommands(recording_b, native_b, commands_b, overflow_checks)
       IN  /\ native_b' = r.log
           /\ enc_state_b' = IF r.panicked THEN "panicked" ELSE "finished"
    /\ recording_b' = TRUE
    /\ UNCHANGED commands_b
    /\ UNCHANGED <<encVars, swapVars, frameVars, clientVars, devVars, descVars, sbtVars, moreVars>>

NextReplay ==
    \/ draw
    \/ draw_indexed
    \/ pipeline_barrier
    \/ finish
    \/ record_b
    \/ finish_b

SpecReplay == InitEncoder /\ [][NextReplay]_vars

MaxDevices == 2

\* the extensions the renderer passes as device_extensions
DeviceExtensions ==
    {"VK_KHR_swapchain", "VK_KHR_acceleration_structure", "VK_KHR_ray_tracing_pipeline",
     "VK_KHR_buffer_device_address", "VK_KHR_deferred_host_operations"}

QueueFamilyLists ==
    {<<>>,
     <<[graphics |-> TRUE, supports_surface |-> FALSE],
       [graphics |-> FALSE, supports_surface |-> TRUE]>>,
     <<[graphics |-> FALSE, supports_surface |-> TRUE],
       [graphics |-> TRUE, supports_surface |-> TRUE]>>}

Srgb == [format |-> "B8G8R8A8_SRGB", color_space |-> "SRGB_NONLINEAR_KHR"]

Unorm == [format |-> "R8G8B8A8_UNORM", color_space |-> "SRGB_NONLINEAR_KHR"]

SurfaceFormatLists == {<<>>, <<Unorm>>, <<Unorm, Srgb>>}

PresentModeLists == {<<"IMMEDIATE_KHR">>, <<"MAILBOX_KHR">>, <<"IMMEDIATE_KHR", "FIFO_KHR">>}

\* what a device may report: every required extension, or all but the last
ExtensionSets == {DeviceExtensions, DeviceExtensions \ {"VK_KHR_deferred_host_operations"}}

PhysicalDevices ==
    [queue_families : QueueFamilyLists, surface_formats : SurfaceFormatLists,
     present_modes : PresentModeLists, extensions : ExtensionSets]

\* the least element of a non-empty set of positions
First(positions) == CHOOSE i \in positions : \A j \in positions : i <= j

\* PhysicalDevice::supports_requirements: Some(info) or None
supports_requirements(dev) ==
    LET families == {i \in DOMAIN dev.queue_families :
                        /\ dev.queue_families[i].graphics
                        /\ dev.queue_families[i].supports_surface}
        srgb == {i \in DOMAIN dev.surface_formats : dev.surface_formats[i] = Srgb}
        found_format == IF srgb # {} THEN <<dev.surface_formats[First(srgb)]>>
                        ELSE IF dev.surface_formats # <<>> THEN <<dev.surface_formats[1]>>
                        ELSE <<>>
        found_mode == IF "FIFO_KHR" \in Range(dev.present_modes)
                      THEN "FIFO_KHR" ELSE "MAILBOX_KHR"
    IN  IF families = {} THEN <<>>
        ELSE IF found_format = <<>> THEN <<>>
        ELSE IF ~(DeviceExtensions \subseteq dev.extensions) THEN <<>>
        ELSE <<[queue_index |-> First(families) - 1,
                surface_format |-> found_format[1],
                present_mode |-> found_mode]>>

\* PhysicalDevice::select_one: the first device that supports the
\* requirements, a panic when there is none
select_one ==
    /\ selection = <<>>
    /\ LET supported == {i \in DOMAIN devices : supports_requirements(devices[i]) # <<>>}
       IN  selection' =
             IF supported = {}
             THEN <<[outcome |-> "panicked", info |-> <<>>, physical_device |-> 0]>>
             ELSE <<[outcome |-> "selected",
                     info |-> supports_requirements(devices[First(supported)]),
                     physical_device |-> First(supported)]>>
    /\ UNCHANGED <<devices, encVars, swapVars, frameVars, clientVars, devVars,
                   descVars, sbtVars, replayVars, meshVars, passVars, uiVars, rtVars,
                   swapchain_infos, queueVars>>

InitSelect ==
    /\ EncoderNew
    /\ SwapchainNew
    /\ PipelineNew("path_tracing")
    /\ DeviceWith([semaphores |-> 1, fences |-> NumFences])
    /\ DescriptorsNew(<<>>)
    /\ SbtNew
    /\ ReplayNew
    /\ devices \in SeqsUpTo(PhysicalDevices, MaxDevices)
    /\ selection = <<>>
    /\ MeshNew
    /\ PassNew
    /\ UiNew(0)
    /\ RtNew
    /\ ChainsNew
    /\ QueueNew

NextSelect ==
    \/ select_one

SpecSelect == InitSelect /\ [][NextSelect]_vars

\* the device has everything the claim asks for: a graphics queue family
\* that can present, a surface format, a present mode of the surface that
\* the renderer can run with, and every required extension
Qualifies(dev) ==
    /\ \E i \in DOMAIN dev.queue_families :
          dev.queue_families[i].graphics /\ dev.queue_families[i].supports_surface
    /\ dev.surface_formats # <<>>
    /\ Range(dev.present_modes) \cap {"FIFO_KHR", "MAILBOX_KHR"} # {}
    /\ DeviceExtensions \subseteq dev.extensions

\* C21: select_one panics unless some enumerated device has a graphics queue
\* family that can present, a surface format, a supported present mode and
\* every required extension; otherwise it returns the first such device in
\* enumeration order, with a present mode its surface supports.
C21_SelectsFirstQualified ==
    selection # <<>> =>
        LET qualified == {i \in DOMAIN devices : Qualifies(devices[i])}
        IN  IF qualified = {}
            THEN selection[1].outcome = "panicked"
            ELSE /\ selection[1].outcome = "selected"
                 /\ selection[1].physical_device = First(qualified)
                 /\ selection[1].info[1].present_mode
                        \in Range(devices[First(qualified)].present_modes)

(***************************************************************************)
(* Renderer::draw returns (SpecReturn).  The host thread runs the body of  *)
(* draw step by step and the queue keeps executing what was submitted, so  *)
(* every step of the frame loop but the start of a new draw call, which is *)
(* the application's choice, is taken when it stays enabled.               *)
(***************************************************************************)
SpecReturn ==
    /\ InitFrame
    /\ [][NextFrame]_vars
    /\ WF_vars(Renderer_acquire)
    /\ WF_vars(Pipeline_draw)
    /\ WF_vars(RayTracingPass_draw)
    /\ WF_vars(TonemapPass_draw)
    /\ WF_vars(RasterPass_draw)
    /\ WF_vars(Queue_present)
    /\ WF_vars(gpu_execute)

\* C22: every Renderer::draw call returns: the fence a draw waits on was
\* attached to an earlier submission, which has signaled it or is still in
\* the queue, and a draw that has started reaches its end.
C22_DrawReturns ==
    /\ [](pc = "pipeline" /\ WaitsFence(frame) =>
            /\ fence_frame[FenceIndex(frame)] # <<>>
            /\ \A f \in Range(fence_frame[FenceIndex(frame)]) : f < frame
            /\ \/ fence_state[FenceIndex(frame)] = "signaled"
               \/ \E i \in DOMAIN gpu_queue :
                     FenceIndex(frame) \in Range(gpu_queue[i].fence))
    /\ (pc # "idle") ~> (pc = "idle")

\* the fourth draw has waited for the fence of the second and has returned
C22_Witness ==
    /\ pc = "idle"
    /\ frame = 4
    /\ fence_frame[FenceIndex(3)] = <<3>>
    /\ "wait_fences" \in Range(call_log)
    /\ call_log[Len(call_log)] = "present"

(***************************************************************************)
(* Mesh::duplicate_vertices (SpecMesh).  The attributes are a map from     *)
(* attribute name to the vector of its values; the BTreeMap visits them in *)
(* the order of their names.                                               *)
(***************************************************************************)
MaxVertices == 2

MaxTriangles == 1

\* index lists of whole triangles
TriangleLists == UNION {[1..(3 * n) -> 0..1] : n \in 0..MaxTriangles}

\* the index lists a client may set
IndexLists == SeqsUpTo(0..1, MaxVertices) \cup TriangleLists

PrimitiveTopologies == {"PointList", "LineList", "LineStrip", "TriangleList", "TriangleStrip"}

AttributeOrder == <<"Vertex_Normal", "Vertex_Position">>

\* the variants of VertexAttributeValues a client sets: float3 and one of
\* the 27 others
AttributeVariants == {"Float32x3", "Uint32x3"}

\* a VertexAttributeValues: the variant and its vector
AttributeValues == [variant : AttributeVariants, values : SeqsUpTo({1, 2}, MaxVertices)]

AttributeMaps ==
    UNION {[names -> AttributeValues] : names \in SUBSET Range(AttributeOrder)}

Meshes ==
    [indices : {<<>>} \cup {<<list>> : list \in SeqsUpTo(0..1, MaxVertices)},
     primitive_topology : PrimitiveTopologies,
     attributes : AttributeMaps]

\* `values[i]` for some i of the indices is out of bounds
OutOfBounds(attribute, list) == \E k \in DOMAIN list : list[k] >= Len(attribute.values)

\* the inner fn duplicate, the vector of an attribute replaced by its result
duplicate(attribute, list) ==
    [variant |-> attribute.variant,
     values |-> [k \in DOMAIN list |-> attribute.values[list[k] + 1]]]

\* the attributes after the loop over them, which a panic cuts short: the
\* attribute that panics and the ones after it keep their values
Duplicated(attributes, list) ==
    [name \in DOMAIN attributes |->
        IF \E k \in DOMAIN AttributeOrder :
              /\ AttributeOrder[k] \in DOMAIN attributes
              /\ OutOfBounds(attributes[AttributeOrder[k]], list)
              /\ \E j \in k..Len(AttributeOrder) : AttributeOrder[j] = name
        THEN attributes[name]
        ELSE duplicate(attributes[name], list)]

\* Mesh::duplicate_vertices
duplicate_vertices ==
    /\ mesh_state # "panicked"
    /\ IF mesh.primitive_topology # "TriangleList"
       THEN mesh_state' = "panicked" /\ UNCHANGED mesh
       ELSE IF mesh.indices = <<>>
       THEN mesh_state' = "returned" /\ UNCHANGED mesh
       ELSE /\ mesh' = [indices |-> <<>>,
                        primitive_topology |-> mesh.primitive_topology,
                        attributes |-> Duplicated(mesh.attributes, mesh.indices[1])]
            /\ mesh_state' =
                 IF \E name \in DOMAIN mesh.attributes :
                       OutOfBounds(mesh.attributes[name], mesh.indices[1])
                 THEN "panicked" ELSE "returned"
    /\ UNCHANGED <<index_variant, blas, encVars, swapVars, frameVars, clientVars, devVars,
                   descVars, sbtVars, replayVars, selVars, passVars, uiVars, rtVars,
                   swapchain_infos, queueVars>>

\* BTreeMap::insert
Inserted(attributes, name, attribute) ==
    [n \in DOMAIN attributes \cup {name} |-> IF n = name THEN attribute ELSE attributes[n]]

\* Mesh::set_attribute; a write through attribute_mut is one to a name
\* that is present
set_attribute ==
    /\ mesh_state # "panicked"
    /\ \E name \in Range(AttributeOrder), attribute \in AttributeValues :
          mesh' = [mesh EXCEPT !.attributes = Inserted(@, name, attribute)]
    /\ mesh_state' = "ready"
    /\ UNCHANGED <<index_variant, blas, encVars, swapVars, frameVars, clientVars, devVars,
                   descVars, sbtVars, replayVars, selVars, passVars, uiVars, rtVars,
                   swapchain_infos, queueVars>>

\* Mesh::set_indices, with indices of either width or None; a write through
\* indices_mut is one to indices that are set
set_indices ==
    /\ mesh_state # "panicked"
    /\ \E indices \in {<<>>} \cup {<<list>> : list \in IndexLists}, variant \in {"U16", "U32"} :
          /\ mesh' = [mesh EXCEPT !.indices = indices]
          /\ index_variant' = IF indices = <<>> THEN index_variant ELSE variant
    /\ mesh_state' = "ready"
    /\ UNCHANGED <<blas, encVars, swapVars, frameVars, clientVars, devVars,
                   descVars, sbtVars, replayVars, selVars, passVars, uiVars, rtVars,
                   swapchain_infos, queueVars>>

\* Vec3::cross of b - a and c - a
Cross(a, b, c) ==
    LET u == [i \in 1..3 |-> b[i] - a[i]]
        v == [i \in 1..3 |-> c[i] - a[i]]
    IN  <<u[2] * v[3] - u[3] * v[2], u[3] * v[1] - u[1] * v[3], u[1] * v[2] - u[2] * v[1]>>

\* face_normal: the attribute value n stands for the position [n, n, n].
\* The cross product of a triangle without area is zero and normalize()
\* makes it [NaN, NaN, NaN], the value written 0; any other normal is a
\* unit vector, written 3
face_normal(a, b, c) ==
    IF Cross(<<a, a, a>>, <<b, b, b>>, <<c, c, c>>) = <<0, 0, 0>> THEN 0 ELSE 3

\* one normal per chunk of three positions, three times; the positions
\* after the last whole chunk get none
FlatNormals(positions) ==
    [k \in 1..(3 * (Len(positions) \div 3)) |->
        LET first == 3 * ((k - 1) \div 3)
        IN  face_normal(positions[first + 1], positions[first + 2], positions[first + 3])]

\* VertexAttributeValues::as_float3
as_float3(attribute) ==
    IF attribute.variant = "Float32x3" THEN <<attribute.values>> ELSE <<>>

\* Mesh::compute_flat_normals: it panics on indexed geometry, on a mesh
\* without positions and on positions that are not float3; the normals are
\* a Vec<[f32; 3]>
compute_flat_normals ==
    /\ mesh_state # "panicked"
    /\ IF mesh.indices # <<>>
       THEN mesh_state' = "panicked" /\ UNCHANGED mesh
       ELSE IF "Vertex_Position" \notin DOMAIN mesh.attributes
       THEN mesh_state' = "panicked" /\ UNCHANGED mesh
       ELSE IF as_float3(mesh.attributes["Vertex_Position"]) = <<>>
       THEN mesh_state' = "panicked" /\ UNCHANGED mesh
       ELSE LET positions == as_float3(mesh.attributes["Vertex_Position"])[1]
            IN  /\ mesh' = [mesh EXCEPT !.attributes =
                               Inserted(@, "Vertex_Normal",
                                        [variant |-> "Float32x3",
                                         values |-> FlatNormals(positions)])]
                /\ mesh_state' = "returned"
    /\ UNCHANGED <<index_variant, blas, encVars, swapVars, frameVars, clientVars, devVars,
                   descVars, sbtVars, replayVars, selVars, passVars, uiVars, rtVars,
                   swapchain_infos, queueVars>>

InitMesh ==
    /\ EncoderNew
    /\ SwapchainNew
    /\ PipelineNew("path_tracing")
    /\ DeviceWith([semaphores |-> 1, fences |-> NumFences])
    /\ DescriptorsNew(<<>>)
    /\ SbtNew
    /\ ReplayNew
    /\ SelectNew(<<>>)
    /\ mesh \in Meshes
    /\ mesh_state = "ready"
    /\ index_variant = "U16"
    /\ blas = <<>>
    /\ PassNew
    /\ UiNew(0)
    /\ RtNew
    /\ ChainsNew
    /\ QueueNew

NextMesh ==
    \/ duplicate_vertices
    \/ compute_flat_normals
    \/ set_attribute
    \/ set_indices

SpecMesh == InitMesh /\ [][NextMesh]_vars

\* C23: duplicate_vertices does nothing when no indices are set: for a mesh
\* of any primitive topology with indices == None the call returns normally
\* and leaves the attributes and the indices as they were.
C23_NoIndicesNoChange ==
    [][(duplicate_vertices /\ mesh.indices = <<>>) =>
          /\ mesh_state' = "returned"
          /\ mesh' = mesh]_vars

(***************************************************************************)
(* The target pass driven on its own (SpecPass): draw calls with any       *)
(* target image, as a pipeline makes them for the images it is handed, and *)
(* the final Device::cleanup.                                              *)
(***************************************************************************)
\* the target images a caller may pass
NumTargets == 5

\* the pass of the pipeline that renders into the target
TargetPass == IF pipeline_kind = "raster" THEN "raster" ELSE "tonemap"

\* TonemapPass::draw / RasterPass::draw with no semaphores and no fence
Pass_draw ==
    /\ frame < MaxFrames
    /\ \E target \in 1..NumTargets :
          PassDraw(TargetPass, target,
                   IF TargetPass = "tonemap" THEN <<OutputImage>> ELSE <<>>, frame)
    /\ CreateEnconder(TRUE)
    /\ Submit(TargetPass, <<>>, <<>>, <<>>, <<frame>>, NextCommandBuffer)
    /\ frame' = frame + 1
    /\ UNCHANGED <<inner, retired, free_semaphore, semaphores, image_state, fence_state,
                   fence_frame, unwaited, pipeline_kind, pc, blases, call_log, encVars,
                   descVars, sbtVars, replayVars, selVars, meshVars, uiVars, rtVars, swapchain_infos,
                   clientVars>>

InitPass ==
    /\ SwapchainNew
    /\ \E kind \in {"path_tracing", "raster"} :
          /\ PipelineNew(kind)
          /\ DeviceWith(Together([semaphores |-> 1, fences |-> NumFences],
                                 TargetPassObjects(kind)))
    /\ EncoderNew
    /\ AuxNew

NextPass ==
    \/ Pass_draw
    \/ cleanup

SpecPass == InitPass /\ [][NextPass]_vars

\* the targets of the draws history[1..k], most recent first, until `acc`
\* holds four of them
RECURSIVE RecentTargets(_, _, _)
RecentTargets(history, k, acc) ==
    IF k = 0 \/ Cardinality(acc) = 4 THEN acc
    ELSE RecentTargets(history, k - 1, acc \cup {history[k].image})

\* the step is a draw of the pass
PassDraws == Len(recorded') = Len(recorded) + 1

\* the cache holds at most 4 entries and at most one per target image
CacheBounded ==
    /\ Len(framebuffers) <= 4
    /\ \A i, j \in DOMAIN framebuffers :
          framebuffers[i].image = framebuffers[j].image => i = j

\* a draw of a target among the 4 most recently used ones creates no
\* framebuffer and `views` image views; any other draw creates exactly one
\* framebuffer, inserts it and evicts the least recently used entry, and
\* only that one, when the cache is full
CacheStep(views) ==
    LET target == recorded'[Len(recorded')].image
    IN  IF target \in RecentTargets(recorded, Len(recorded), {})
        THEN /\ created'["framebuffers"] = created["framebuffers"]
             /\ created'["image_views"] = created["image_views"] + views
             /\ Range(framebuffers') = Range(framebuffers)
        ELSE /\ created'["framebuffers"] = created["framebuffers"] + 1
             /\ Head(framebuffers') =
                    [image |-> target, framebuffer |-> created'["framebuffers"]]
             /\ Tail(framebuffers') =
                    IF Len(framebuffers) = 4
                    THEN SubSeq(framebuffers, 1, 3)
                    ELSE framebuffers

\* C24 as stated: the framebuffer cache of a pass never holds more than 4
\* entries nor two entries for one target image; a draw whose target is among
\* the 4 most recently used distinct targets creates no framebuffer and no
\* image view; a draw that misses creates exactly one framebuffer, inserts
\* it, and evicts only the least recently used entry when the cache is full.
C24_FramebufferCache ==
    /\ []CacheBounded
    /\ [][PassDraws => CacheStep(0)]_vars

\* C24, amended: as above, but a draw whose target is cached creates no
\* framebuffer and no view of the target; the only image view it may create
\* is the input view TonemapPass binds in the first draw of each parity.
C24_FramebufferCacheTargetViews ==
    /\ []CacheBounded
    /\ [][PassDraws =>
            CacheStep(Len(set_writes'[1]) + Len(set_writes'[2])
                      - Len(set_writes[1]) - Len(set_writes[2]))]_vars

\* a fifth target has evicted the first one from a full cache
C24_Witness ==
    /\ Len(recorded) = 5
    /\ created["framebuffers"] = 5
    /\ Len(framebuffers) = 4
    /\ framebuffers[1].image = recorded[5].image
    /\ \A i \in DOMAIN framebuffers : framebuffers[i].image # recorded[1].image

\* a native destroy call has been made for the handle of the kind
DestroyCalled(kind, native_handle) ==
    \E i \in DOMAIN destroy_log :
        destroy_log[i] = [native_handle |-> native_handle, kind |-> kind]

\* C25: evicting an entry from the framebuffer cache destroys nothing: the
\* framebuffer that a submitted command buffer nobody has waited for
\* references stays registered and alive, as do all image views, and native
\* framebuffers are destroyed by Device::cleanup only.
C25_EvictionKeepsNative ==
    /\ [](dev_state = "live" =>
            /\ \A i \in DOMAIN gpu_queue : \A f \in Range(gpu_queue[i].frame_no) :
                  /\ recorded[f + 1].framebuffer \in Range(slabs["framebuffers"])
                  /\ ~DestroyCalled("framebuffers", recorded[f + 1].framebuffer)
            /\ \A i \in DOMAIN destroy_log :
                  destroy_log[i].kind \notin {"framebuffers", "image_views"})
    /\ [][framebuffers' # framebuffers =>
            /\ destroy_log' = destroy_log
            /\ Range(slabs["framebuffers"]) \subseteq Range(slabs'["framebuffers"])
            /\ Range(slabs["image_views"]) \subseteq Range(slabs'["image_views"])]_vars
    /\ [][(\E h \in Range(slabs["framebuffers"]) :
              DestroyCalled("framebuffers", h)' /\ ~DestroyCalled("framebuffers", h)) =>
            dev_state = "live" /\ dev_state' = "destroyed"]_vars

\* the framebuffer of the first submission was evicted by the fifth draw;
\* the submission is still queued and the framebuffer still registered
C25_Witness ==
    /\ dev_state = "live"
    /\ Len(gpu_queue) = 5
    /\ gpu_queue[1].frame_no = <<0>>
    /\ \A i \in DOMAIN framebuffers : framebuffers[i].framebuffer # recorded[1].framebuffer
    /\ recorded[1].framebuffer \in Range(slabs["framebuffers"])
    /\ destroy_log = <<>>

\* position of the first occurrence of the call in the log, 0 if there is none
CallPosition(log, call) ==
    IF \E i \in DOMAIN log : log[i] = call
    THEN First({i \in DOMAIN log : log[i] = call})
    ELSE 0

\* C26: for each slot s in {0, 1} TonemapPass creates the input image view
\* and writes descriptor set s exactly once, in the first draw with
\* frame % 2 = s and before that draw's submission; later draws of that
\* parity write nothing, so that at most 2 input image views ever exist.
C26_InputBoundOncePerSlot ==
    /\ [](pipeline_kind = "path_tracing" =>
            \A slot \in {0, 1} :
                /\ Len(set_writes[slot + 1]) = IF frame > slot THEN 1 ELSE 0
                /\ initial_images[slot + 1] = set_writes[slot + 1])
    /\ [][(PassDraws /\ pipeline_kind = "path_tracing") =>
            LET slot == frame % 2
                written == CallPosition(pass_log', "write_descriptor_set")
            IN  /\ recorded'[Len(recorded')].descriptor_set = <<slot>>
                /\ set_writes'[2 - slot] = set_writes[2 - slot]
                /\ IF frame = slot
                   THEN /\ set_writes'[slot + 1] = <<created'["image_views"]>>
                        /\ CallPosition(pass_log', "create_image_view") # 0
                        /\ written # 0
                        /\ written < CallPosition(pass_log', "update_descriptor_sets")
                        /\ CallPosition(pass_log', "update_descriptor_sets")
                              < CallPosition(pass_log', "submit")
                   ELSE /\ set_writes' = set_writes
                        /\ written = 0]_vars

\* four draws made, each descriptor set written once, by the first two
C26_Witness ==
    /\ pipeline_kind = "path_tracing"
    /\ frame = 4
    /\ Len(set_writes[1]) = 1
    /\ Len(set_writes[2]) = 1
    /\ initial_images[1] # initial_images[2]
    /\ CallPosition(pass_log, "write_descriptor_set") = 0
    /\ CallPosition(pass_log, "update_descriptor_sets") # 0

(***************************************************************************)
(* The UI pass (SpecUi): draws, and the UI library rebuilding its font     *)
(* atlas, which advances the version of the texture.                       *)
(***************************************************************************)
MaxVersions == 2

\* the target images the UI pass is handed
UiTargets == 2

\* UIPass::update_set: on a new texture version build the font image and
\* write the descriptor set of this frame's slot
update_set(pass, version, frame_id) ==
    IF version = pass.texture_version THEN pass
    ELSE [texture_version |-> version,
          font_image |-> <<version>>,
          descriptor_sets |-> [pass.descriptor_sets EXCEPT ![frame_id + 1] = <<version>>],
          font_builds |-> Append(pass.font_builds, version)]

\* UIPass::draw
UIPass_draw ==
    /\ frame < MaxFrames
    /\ \E target \in 1..UiTargets : PassDraw("ui", target, <<>>, frame)
    /\ ui_pass' = update_set(ui_pass, texture, frame % 2)
    /\ CreateEnconder(TRUE)
    /\ Submit("ui", <<>>, <<>>, <<>>, <<frame>>, NextCommandBuffer)
    /\ frame' = frame + 1
    /\ UNCHANGED <<inner, retired, free_semaphore, semaphores, image_state, fence_state,
                   fence_frame, unwaited, pipeline_kind, pc, blases, call_log, encVars,
                   descVars, sbtVars, replayVars, selVars, meshVars, texture, rtVars, swapchain_infos,
                   clientVars>>

\* the UI library rebuilds its font atlas
texture_changes ==
    /\ texture < MaxVersions
    /\ texture' = texture + 1
    /\ UNCHANGED <<ui_pass, encVars, swapVars, frameVars, clientVars, devVars,
                   descVars, sbtVars, replayVars, selVars, meshVars, passVars, rtVars, swapchain_infos,
                   queueVars>>

InitUi ==
    /\ SwapchainNew
    /\ PipelineNew("path_tracing")
    /\ EncoderNew
    /\ DeviceWith(Together([semaphores |-> 1, fences |-> NumFences], UIPass_new))
    /\ DescriptorsNew(<<>>)
    /\ SbtNew
    /\ ReplayNew
    /\ SelectNew(<<>>)
    /\ MeshNew
    /\ PassNew
    /\ \E version \in {0, 1} : UiNew(version)
    /\ RtNew
    /\ ChainsNew
    /\ QueueNew

NextUi ==
    \/ UIPass_draw
    \/ texture_changes

SpecUi == InitUi /\ [][NextUi]_vars

\* C27: the descriptor set slot used by a frame (frame % 2) has been written
\* with the font image of the current texture version before the frame is
\* submitted, and a version change rebuilds the font image exactly once.
C27_FontReachesFrameSet ==
    /\ [][frame' = frame + 1 =>
            ui_pass'.descriptor_sets[(frame % 2) + 1] = <<texture>>]_vars
    /\ [](\A i, j \in DOMAIN ui_pass.font_builds :
            ui_pass.font_builds[i] = ui_pass.font_builds[j] => i = j)

(***************************************************************************)
(* The submissions of PathTracingPipeline::draw.                           *)
(***************************************************************************)
\* the operation the step has appended to the queue
Submitted == gpu_queue'[Len(gpu_queue')]

\* C28: every PathTracingPipeline::draw makes exactly two submissions, in
\* this order: the ray tracing pass without wait semaphores, signal
\* semaphores or fence, then the tonemap pass, which waits on the target's
\* acquire semaphore at the color-attachment-output stage, signals the
\* target's release semaphore and carries the frame's fence; the tonemap
\* pass's input image is the output image the ray tracing pass returned.
C28_TwoSubmissions ==
    [][pipeline_kind = "path_tracing" =>
        /\ (pc = "pipeline" /\ pc' # pc) =>
              /\ pc' = "raytracing"
              /\ gpu_queue' = gpu_queue
        /\ (pc = "raytracing" /\ pc' # pc) =>
              /\ pc' = "tonemap"
              /\ gpu_queue' = Append(gpu_queue, Submitted)
              /\ Submitted.kind = "submit"
              /\ Submitted.pass = "raytracing"
              /\ Submitted.wait = <<>>
              /\ Submitted.wait_stages = <<>>
              /\ Submitted.signal = <<>>
              /\ Submitted.fence = <<>>
              /\ raytracing_output' = <<OutputImage>>
        /\ (pc = "tonemap" /\ pc' # pc) =>
              /\ pc' = "present"
              /\ gpu_queue' = Append(gpu_queue, Submitted)
              /\ Submitted.kind = "submit"
              /\ Submitted.pass = "tonemap"
              /\ Submitted.wait = <<swapchain_image[1].wait>>
              /\ Submitted.wait_stages = <<"COLOR_ATTACHMENT_OUTPUT">>
              /\ Submitted.signal = <<swapchain_image[1].signal>>
              /\ Submitted.fence = <<frame % 2>>
              /\ recorded'[Len(recorded')].image = TargetOf(swapchain_image[1])
              /\ recorded'[Len(recorded')].input = raytracing_output
              /\ raytracing_output = <<OutputImage>>]_vars

\* the second draw has made its two submissions, which are both still queued
C28_Witness ==
    /\ pipeline_kind = "path_tracing"
    /\ pc = "present"
    /\ frame = 2
    /\ Len(gpu_queue) >= 2
    /\ gpu_queue[Len(gpu_queue) - 1].pass = "raytracing"
    /\ gpu_queue[Len(gpu_queue) - 1].fence = <<>>
    /\ gpu_queue[Len(gpu_queue)].pass = "tonemap"
    /\ gpu_queue[Len(gpu_queue)].fence = <<1>>
    /\ gpu_queue[Len(gpu_queue)].wait_stages = <<"COLOR_ATTACHMENT_OUTPUT">>

(***************************************************************************)
(* The barriers of RayTracingPass::draw.                                   *)
(***************************************************************************)
\* the positions in the command list of the commands with property P
Positions(list, P(_)) == {i \in DOMAIN list : P(list[i])}

\* C29: in the command list of every RayTracingPass::draw an acceleration
\* structure write-to-read barrier precedes the TLAS build; a barrier from
\* the acceleration-structure-build stage to the ray-tracing-shader stage and
\* the output image's transition from undefined to GENERAL lie between the
\* build and TraceRays; a transition from GENERAL to
\* SHADER_READ_ONLY_OPTIMAL follows TraceRays.  So the output image is in
\* GENERAL layout whenever rays are traced and in SHADER_READ_ONLY_OPTIMAL
\* whenever the tonemap pass samples it.
C29_BarrierChoreography ==
    /\ [](rt_commands # <<>> =>
            LET build == Positions(rt_commands,
                            LAMBDA c : c.tag = "BuildAccelerationStructure")
                trace == Positions(rt_commands, LAMBDA c : c.tag = "TraceRays")
                barriers == Positions(rt_commands, LAMBDA c : c.tag = "PipelineBarrier")
                Moves(i, from, to) ==
                    \E k \in DOMAIN rt_commands[i].image_barriers :
                        rt_commands[i].image_barriers[k] =
                            [old_layout |-> from, new_layout |-> to]
            IN  /\ Cardinality(build) = 1
                /\ Cardinality(trace) = 1
                /\ \A b \in build : \A t \in trace :
                      /\ b < t
                      /\ \E i \in barriers :
                            /\ i < b
                            /\ rt_commands[i].src_access_mask =
                                  "ACCELERATION_STRUCTURE_WRITE_KHR"
                            /\ rt_commands[i].dst_access_mask =
                                  "ACCELERATION_STRUCTURE_READ_KHR"
                      /\ \E i \in barriers :
                            /\ b < i /\ i < t
                            /\ rt_commands[i].src = "ACCELERATION_STRUCTURE_BUILD_KHR"
                            /\ rt_commands[i].dst = "RAY_TRACING_SHADER_KHR"
                      /\ \E i \in barriers : b < i /\ i < t /\ Moves(i, None, "GENERAL")
                      /\ \E i \in barriers :
                            t < i /\ Moves(i, "GENERAL", "SHADER_READ_ONLY_OPTIMAL"))
    /\ [](output_image.traced_in \in {<<>>, <<"GENERAL">>})
    /\ [](output_image.sampled_in \in {<<>>, <<"SHADER_READ_ONLY_OPTIMAL">>})

\* the queue has traced the third frame and the tonemap pass has sampled it
C29_Witness ==
    /\ frame >= 3
    /\ gpu_queue = <<>>
    /\ pc = "idle"
    /\ Len(rt_commands) = 8
    /\ output_image = [layout |-> "SHADER_READ_ONLY_OPTIMAL", traced_in |-> <<"GENERAL">>,
                       sampled_in |-> <<"SHADER_READ_ONLY_OPTIMAL">>]

(***************************************************************************)
(* Retired swapchains (SpecResize): the Swapchain driven through its two   *)
(* operations, with the surface resized once more than elsewhere.          *)
(***************************************************************************)
\* Swapchain::configure, also on a swapchain that is configured already
Swapchain_configure ==
    /\ dev_state = "live"
    /\ Len(image_state) <= MaxConfigures
    /\ Configure
    /\ UNCHANGED <<gpu_queue, encVars, stillVars, frameVars, clientVars>>

NextResize ==
    \/ Swapchain_configure
    \/ acquire_next_image

SpecResize == InitSwapchain /\ [][NextResize]_vars

\* C30: after every Swapchain::configure there is exactly one active chain,
\* created with the handle of the previous active chain as its old swapchain
\* (null on the first call); the previous active chain is appended to the
\* retired list, and nothing removes or destroys a retired chain, so that
\* after n >= 1 configure calls the retired list has n - 1 entries.
C30_RetiredChainsKept ==
    /\ [](Len(swapchain_infos) >= 1 =>
            /\ Len(inner) = 1
            /\ Len(retired) = Len(swapchain_infos) - 1
            /\ \A i \in DOMAIN retired : retired[i].handle # inner[1].handle)
    /\ [](dev_state = "live" =>
            \A i \in DOMAIN destroy_log : destroy_log[i].kind # "swapchains")
    /\ [][Len(swapchain_infos') # Len(swapchain_infos) =>
            /\ swapchain_infos' =
                  Append(swapchain_infos,
                         [old_swapchain |-> IF inner = <<>> THEN 0 ELSE inner[1].handle])
            /\ retired' = retired \o inner
            /\ inner'[1].handle = Len(swapchain_infos')
            /\ inner'[1].handle \in Range(slabs'["swapchains"])]_vars
    /\ [][/\ Len(retired') >= Len(retired)
          /\ SubSeq(retired', 1, Len(retired)) = retired
          /\ Range(slabs["swapchains"]) \subseteq Range(slabs'["swapchains"])]_vars

\* the second configure has retired the first chain and chained off it
C30_Witness ==
    /\ Len(swapchain_infos) = 2
    /\ swapchain_infos[1].old_swapchain = 0
    /\ swapchain_infos[2].old_swapchain = 1
    /\ Len(retired) = 1
    /\ retired[1].handle = 1
    /\ inner[1].handle = 2
    /\ acquires > 0

(***************************************************************************)
(* The Queue's command pool (SpecFrame).                                   *)
(***************************************************************************)
\* a step in which Queue::create_enconder is called
CallsCreateEnconder == Len(encoders') # Len(encoders)

\* C31: the command pool is created exactly once, by the first
\* create_enconder call, and reused afterwards; each call allocates exactly
\* one new primary command buffer from it and returns an Encoder with an
\* empty command list that owns that buffer
C31_PoolCreatedOnce ==
    /\ [](/\ command_pools = (IF encoders = <<>> THEN 0 ELSE 1)
          /\ pool = (IF encoders = <<>> THEN <<>> ELSE <<1>>)
          /\ Len(command_buffers) = Len(encoders))
    /\ [][IF CallsCreateEnconder
          THEN LET h == Len(command_buffers) + 1
               IN  /\ Len(command_buffers') = h
                   /\ Len(encoders') = h
                   /\ \A i \in DOMAIN command_buffers :
                         /\ command_buffers'[i] = command_buffers[i]
                         /\ encoders'[i] = encoders[i]
                         /\ encoders[i].command_buffer # h
                   /\ command_buffers'[h].pool = pool'[1]
                   /\ command_buffers'[h].level = "PRIMARY"
                   /\ encoders'[h] = [commands |-> <<>>, command_buffer |-> h]
                   /\ pool # <<>> => pool' = pool /\ command_pools' = command_pools
          ELSE UNCHANGED <<pool, command_pools, command_buffers>>]_vars

\* C31 witness: the renderer and both passes of a frame have created an
\* encoder each, from the one pool
C31_Witness ==
    /\ Len(encoders) >= 4
    /\ command_pools = 1
    /\ \A i \in DOMAIN command_buffers : command_buffers[i].pool = 1

(***************************************************************************)
(* Host writes to the ray tracing pass's buffers (SpecFrame).              *)
(***************************************************************************)
\* a queue operation whose commands read the globals and instances buffers:
\* the top level build reads the instances, the rays read the globals
ReadsHostBuffers(op) == op.kind = "submit" /\ op.pass = "raytracing"

\* a step in which RayTracingPass::draw writes the two buffers
HostWrites == host_buffers' # host_buffers

\* C32: the host writes RayTracingPass::draw makes to its globals buffer and
\* instances buffer happen only when no submitted command buffer reading
\* them is still in flight; frame k's write never overlaps a still running
\* submission of frame k-1
C32_HostWriteNotInFlight ==
    [][HostWrites =>
          \A i \in DOMAIN gpu_queue : ~ReadsHostBuffers(gpu_queue[i])]_vars

(***************************************************************************)
(* Access masks of replayed image barriers (SpecEncoder).                  *)
(***************************************************************************)
\* C33: every image barrier of a replayed PipelineBarrier command carries
\* the command's src_access_mask as source and the command's
\* dst_access_mask as destination access mask, the same pair as the global
\* memory barrier of that native call
C33_ImageBarrierAccessMasks ==
    FinishedOnce =>
        \A i \in DOMAIN commands :
            commands[i].tag = "PipelineBarrier" =>
                LET c == commands[i]
                    n == native[i + 1]
                IN  \A k \in DOMAIN n.image_memory_barriers :
                        /\ n.image_memory_barriers[k].src_access_mask = c.src_access_mask
                        /\ n.image_memory_barriers[k].dst_access_mask = c.dst_access_mask
                        /\ n.image_memory_barriers[k].src_access_mask =
                               n.memory_barriers[1].src_access_mask
                        /\ n.image_memory_barriers[k].dst_access_mask =
                               n.memory_barriers[1].dst_access_mask

(***************************************************************************)
(* Use of the allocated command buffers (SpecFrame).                       *)
(***************************************************************************)
\* C34: once a Renderer::draw call has returned, every command buffer that
\* Queue::create_enconder allocated has been finished and submitted exactly
\* once: no encoder was dropped with its command buffer never recorded or
\* submitted, and no command buffer was submitted twice
C34_BuffersSubmittedOnce ==
    pc = "idle" =>
        \A h \in DOMAIN command_buffers :
            /\ command_buffers[h].finished
            /\ command_buffers[h].submits = 1

(***************************************************************************)
(* Teardown: the frame loop ended by dropping the Renderer (SpecDrop).     *)
(***************************************************************************)
\* Queue::cleanup: destroy_command_pool on self.pool, null or not
Queue_cleanup(p) ==
    <<[native_handle |-> IF p = <<>> THEN 0 ELSE p[1], kind |-> "command_pool"]>>

\* DebugMessenger::destroy: the handle is null in a build without
\* debug_assertions
DebugMessenger_destroy(debug_assertions) ==
    IF debug_assertions THEN <<Call("debug_messenger")>> ELSE <<>>

\* RenderContext::destroy_context
destroy_context(p, registry) ==
    <<Call("device_wait_idle")>> \o Queue_cleanup(p) \o CleanupCalls(registry)

\* impl Drop for Renderer, between two draw calls; device_wait_idle returns
\* once the queue has executed everything submitted
Renderer_drop ==
    /\ pc = "idle"
    /\ dev_state = "live"
    /\ gpu_queue = <<>>
    /\ \E debug_assertions \in BOOLEAN :
          destroy_log' = destroy_log \o destroy_context(pool, slabs)
                         \o <<Call("surface")>>
                         \o DebugMessenger_destroy(debug_assertions)
                         \o <<Call("instance")>>
    /\ dev_state' = "destroyed"
    /\ pc' = "dropped"
    /\ UNCHANGED <<created, slabs, create_calls, swapVars, fence_state, fence_frame, unwaited,
                   frame, pipeline_kind, blases, call_log, clientVars, encVars, auxVars>>

NextDrop ==
    \/ Renderer_draw
    \/ Renderer_acquire
    \/ Pipeline_draw
    \/ RayTracingPass_draw
    \/ TonemapPass_draw
    \/ RasterPass_draw
    \/ Queue_present
    \/ gpu_execute
    \/ Renderer_drop

SpecDrop == InitFrame /\ [][NextDrop]_vars

\* the native calls made through the device, and those made through the
\* instance
DeviceCalls == Range(SlabKinds) \cup {"device_wait_idle", "command_pool", "device"}

InstanceCalls == {"surface", "debug_messenger", "instance"}

\* C35: when a Renderer is dropped, teardown waits for the device to go idle
\* first, then destroys each native object (command pool, every slab handle,
\* surface, debug messenger, device, instance) exactly once, destroys the
\* device before the instance, and never uses the instance or the device
\* after it has been destroyed
C35_TeardownOrder ==
    pc = "dropped" =>
        /\ destroy_log[1] = Call("device_wait_idle")
        /\ \A i, j \in DOMAIN destroy_log : destroy_log[i] = destroy_log[j] => i = j
        /\ \A k \in Range(SlabKinds) : \A i \in DOMAIN slabs[k] :
              \E j \in DOMAIN destroy_log :
                 destroy_log[j] = [native_handle |-> slabs[k][i], kind |-> k]
        /\ \A k \in {"command_pool", "surface", "device", "instance"} :
              \E j \in DOMAIN destroy_log : destroy_log[j].kind = k
        /\ Precedes("device", "instance")
        /\ \A i, j \in DOMAIN destroy_log :
              /\ (destroy_log[i].kind = "device" /\ destroy_log[j].kind \in DeviceCalls)
                     => j <= i
              /\ (destroy_log[i].kind = "instance"
                  /\ destroy_log[j].kind \in InstanceCalls \cup DeviceCalls) => j <= i

(***************************************************************************)
(* The swapchain's acquire semaphores (SpecResize).                        *)
(***************************************************************************)
\* the semaphores in the acquire slots of a chain's images
AcquireSemaphores(inn) ==
    UNION {Range(inn.images[i].acquire) : i \in DOMAIN inn.images}

\* a step in which acquire_next_image returns an image
ReturnsImage == acquires' # acquires /\ inner # <<>>

\* C36: the free semaphore and the acquire-slot semaphores of the active
\* chain are pairwise distinct after any sequence of configure and
\* acquire_next_image calls: an acquire permutes them, none is duplicated
\* or lost; the `wait` semaphore returned with an image is the one then
\* stored in the acquire slot of that image the call swapped
C36_AcquireSemaphoresPermuted ==
    /\ [](inner # <<>> =>
            /\ free_semaphore \notin AcquireSemaphores(inner[1])
            /\ Cardinality(AcquireSemaphores(inner[1])) = NumImages * SemaphoresPerImage)
    /\ [][ReturnsImage =>
            LET img == swapchain_image'[1]
                before == inner[1].images[img.index + 1]
                after == inner'[1].images[img.index + 1]
            IN  /\ AcquireSemaphores(inner'[1]) \cup {free_semaphore'}
                     = AcquireSemaphores(inner[1]) \cup {free_semaphore}
                /\ img.wait = free_semaphore
                /\ after.acquire[(before.acquire_index % SemaphoresPerImage) + 1] = img.wait
                /\ free_semaphore' = before.acquire[(before.acquire_index % SemaphoresPerImage) + 1]
                /\ \A i \in DOMAIN inner[1].images :
                      i # img.index + 1 => inner'[1].images[i] = inner[1].images[i]]_vars

\* C36 witness: an image of the first chain was acquired, the surface was
\* configured again, and an image of the second chain has been acquired with
\* the semaphore that left the first chain
C36_Witness ==
    /\ Len(retired) = 1
    /\ inner # <<>>
    /\ swapchain_image # <<>>
    /\ swapchain_image[1].handle = inner[1].handle
    /\ swapchain_image[1].wait # 1
    /\ swapchain_image[1].wait \in AcquireSemaphores(inner[1])
    /\ swapchain_image[1].wait \notin AcquireSemaphores(retired[1])
    /\ 1 \in AcquireSemaphores(retired[1])

(***************************************************************************)
(* The bottom level acceleration structure of key 0 (SpecFrame).           *)
(***************************************************************************)
\* a step that submits the command buffer of the BLAS build
SubmitsBlas ==
    /\ Len(gpu_queue') = Len(gpu_queue) + 1
    /\ gpu_queue'[Len(gpu_queue')].pass = "blas"

\* C37: the BLAS of key 0 is built and submitted exactly once, by the first
\* Renderer::draw call and before any ray tracing pass is submitted; every
\* RayTracingPass::draw finds key 0 in the map, its lookup never fails
C37_BlasBuiltOnce ==
    /\ [](/\ pc # "panicked"
          /\ (frame > 0 \/ pc # "idle") => blases
          /\ \A i, j \in DOMAIN gpu_queue :
                (gpu_queue[i].pass = "blas" /\ gpu_queue[j].pass = "raytracing") => i < j)
    /\ [][/\ SubmitsBlas => (~blases /\ blases' /\ frame = 0 /\ pc = "idle"
                             /\ raytracing_output = <<>>)
          /\ (~blases /\ pc' # pc) => SubmitsBlas
          /\ blases => blases'
          /\ (pc = "raytracing" /\ pc' # pc) => (blases /\ pc' = "tonemap")]_vars

\* C37 witness: the ray tracing pass of a later frame has been drawn with
\* the BLAS that the first frame built
C37_Witness ==
    /\ frame >= 1
    /\ pc = "tonemap"
    /\ blases
    /\ raytracing_output # <<>>
    /\ call_log = <<"create_enconder", "acquire_next_image", "create_enconder", "submit">>

(***************************************************************************)
(* Layout of the shader binding table (SpecSbt).                           *)
(***************************************************************************)
\* the number of groups of each category, in table order
CategoryCounts(info) == <<Len(info.raygen), Len(info.miss), Len(info.hit), Len(info.callable)>>

\* the regions of a table follow each other in the order raygen, miss, hit,
\* callable, each one stride-aligned and as large as its groups times the
\* stride, and together they fill the table buffer
LaidOutConsecutively(table, info) ==
    LET counts == CategoryCounts(info)
        region(i) == table.regions[i][1]
        end(i) == WideAdd(region(i).offset, region(i).size)
    IN  /\ \A i \in 1..4 : table.regions[i] # <<>>
        /\ \A i \in 2..4 : region(i).offset = end(i - 1)
        /\ \A i \in 1..4 :
              /\ region(i).size = WideMul(table.group_stride, counts[i])
              /\ \E n \in 0..GroupCount(info) :
                    region(i).offset = WideMul(table.group_stride, n)
        /\ \A i, j \in 1..4 : i < j => WideLE(end(i), region(j).offset)
        /\ end(4) = WideAdd(region(1).offset, table.buffer_size)

\* C38: the regions create_shader_binding_table returns are laid out
\* consecutively in the order raygen, miss, hit, callable: each starts where
\* the previous one ends, at a multiple of the stride, its size is the
\* number of groups of its category times the stride, the regions do not
\* overlap and their sizes add up to the size of the table buffer
C38_RegionsConsecutive ==
    \A i \in DOMAIN sbt :
        sbt[i].status = "built" => LaidOutConsecutively(sbt[i], sbt_info)

(***************************************************************************)
(* Mesh::build_triangle_blas (SpecBlas): one call on a fresh encoder for a *)
(* mesh whose indices, when set, are of either width.                      *)
(***************************************************************************)
BlasMeshes ==
    [indices : {<<>>} \cup {<<list>> : list \in TriangleLists},
     primitive_topology : {"TriangleList"},
     attributes : AttributeMaps]

\* the vk::IndexType CommandBuffer::build_acceleration_structure replays an
\* index_data with
IndexTypeOf(index_data) ==
    IF index_data = <<>> THEN "NONE_KHR"
    ELSE IF index_data[1] = "U16" THEN "UINT16" ELSE "UINT32"

\* the AccelerationStructureGeometryInfo::Triangles of the size query
SizesInfo(vertex_count, triangle_count) ==
    [max_primitive_count |-> triangle_count,
     max_vertex_count |-> vertex_count,
     vertex_format |-> "R32G32B32_SFLOAT",
     index_type |-> "UINT16"]

\* the AccelerationStructureGeometry::Triangles of the build command
Geometry(vertex_count, triangle_count, variant) ==
    [vertex_count |-> vertex_count,
     first_vertex |-> 0,
     index_data |-> <<variant>>,
     vertex_format |-> "R32G32B32_SFLOAT",
     primitive_count |-> triangle_count]

\* Mesh::build_triangle_blas: the unwrap of the positions panics before
\* anything is created, the expect of the indices after the vertex buffer
\* is; otherwise four buffers and the acceleration structure are created
\* and one build command is recorded
build_triangle_blas ==
    /\ blas = <<>>
    /\ dev_state = "live"
    /\ enc_state = "open"
    /\ Len(commands) < MaxCommands
    /\ IF "Vertex_Position" \notin DOMAIN mesh.attributes
       THEN /\ blas' = <<[status |-> "panicked", sizes_info |-> <<>>, geometry |-> <<>>]>>
            /\ UNCHANGED <<commands, last_call, created, slabs, create_calls>>
       ELSE IF mesh.indices = <<>>
       THEN /\ blas' = <<[status |-> "panicked", sizes_info |-> <<>>, geometry |-> <<>>]>>
            /\ Create("buffers", 1)
            /\ UNCHANGED <<commands, last_call>>
       ELSE LET vertex_count == Len(mesh.attributes["Vertex_Position"].values)
                triangle_count == Len(mesh.indices[1]) \div 3
            IN  /\ blas' = <<[status |-> "built",
                              sizes_info |-> <<SizesInfo(vertex_count, triangle_count)>>,
                              geometry |-> <<Geometry(vertex_count, triangle_count,
                                                      index_variant)>>]>>
                /\ created' = [created EXCEPT !["buffers"] = @ + 4,
                                              !["acceleration_structures"] = @ + 1]
                /\ slabs' = [slabs EXCEPT
                               !["buffers"] = RegisterMany(@, created["buffers"] + 1, 4),
                               !["acceleration_structures"] =
                                   RegisterMany(@, created["acceleration_structures"] + 1, 1)]
                /\ create_calls' = create_calls + 5
                /\ commands' = Append(commands,
                                      [tag |-> "BuildAccelerationStructure", infos |-> <<1>>])
                /\ last_call' = [method |-> "build_acceleration_structure", arg_len |-> 1]
    /\ UNCHANGED <<enc_state, recording, native, writes, overflow_checks, destroy_log, dev_state,
                   mesh, mesh_state, index_variant>>
    /\ UNCHANGED <<swapVars, frameVars, clientVars, descVars, sbtVars, replayVars, selVars,
                   passVars, uiVars, rtVars, swapchain_infos, queueVars>>

InitBlas ==
    /\ EncoderNew
    /\ SwapchainNew
    /\ PipelineNew("path_tracing")
    /\ DeviceWith([semaphores |-> 1, fences |-> NumFences])
    /\ DescriptorsNew(<<>>)
    /\ SbtNew
    /\ ReplayNew
    /\ SelectNew(<<>>)
    /\ mesh \in BlasMeshes
    /\ mesh_state = "ready"
    /\ index_variant \in {"U16", "U32"}
    /\ blas = <<>>
    /\ PassNew
    /\ UiNew(0)
    /\ RtNew
    /\ ChainsNew
    /\ QueueNew

NextBlas ==
    \/ build_triangle_blas

SpecBlas == InitBlas /\ [][NextBlas]_vars

\* C39: build_triangle_blas describes the same geometry in both phases of
\* the build: the index type, vertex format, vertex count and primitive count
\* of the size query equal those of the geometry recorded in the build
\* command, for 16-bit and for 32-bit indices
C39_SameGeometryInBothPhases ==
    \A i \in DOMAIN blas :
        blas[i].status = "built" =>
            LET query == blas[i].sizes_info[1]
                build == blas[i].geometry[1]
            IN  /\ query.index_type = IndexTypeOf(build.index_data)
                /\ query.vertex_format = build.vertex_format
                /\ query.max_vertex_count = build.vertex_count
                /\ query.max_primitive_count = build.primitive_count

====
